---------------------------- MODULE Spec2Model ----------------------------
(***************************************************************************)
(* A model of the event-dispatch and handle-ownership layer of rust-sciter *)
(* (src/src/eventhandler.rs, src/src/host.rs, src/src/video.rs,            *)
(* src/src/graphics.rs, src/src/dom.rs, src/src/window.rs) and of the     *)
(* video example (src/examples/video.rs).                                  *)
(*                                                                         *)
(* The module holds these state machines and specifications:               *)
(*   Spec          the three callback trampolines and process_events       *)
(*   SpecDispatch  the trampolines given notifications of every group, with *)
(*                 and without a payload, one at a time                    *)
(*   SpecPair      the trampolines of two handlers attached side by side   *)
(*   SpecDecode    the decoding of the code, phase and reason fields       *)
(*   SpecHost      the behavior registry of a host                         *)
(*   SpecHosts     the behavior registries of two hosts side by side       *)
(*   SpecHandles   the reference-counted handle wrappers                   *)
(*   SpecVideo     the streaming handler of the video example; it counts   *)
(*                 its add-ref and release calls in the variables of the   *)
(*                 handle wrappers                                         *)
(*   SpecVideoFair SpecVideo with its threads scheduled fairly             *)
(*   SpecSelect    the selector queries find_first and find_all            *)
(*   SpecBuilder   the window builder                                      *)
(*   SpecPaint     Image::paint                                            *)
(*   SpecElement   the Element wrapper and its engine references           *)
(*   SpecBehavior  a registered behavior attached by the registry lookup   *)
(*                 and the notifications its handler gets                  *)
(*   SpecCallback  the callback payloads of two hosts, replaced and dropped *)
(***************************************************************************)
EXTENDS Integers, Sequences, FiniteSets, TLC

VARIABLES
  box,        \* per handler: the heap allocation behind the context pointer
  dropCount,  \* per handler: how many times Box::from_raw + drop ran on it
  notes,      \* the notifications the engine delivered, in delivery order
  calls,      \* per notification: the handler methods the trampoline called
  rets,       \* per notification: the BOOL the trampoline returned
  stack,      \* the trampoline invocations on the call stack (ids into notes)
  crashed,    \* the process died while running on freed memory
  payload,    \* per notification: its result slot, and whether it was read
  decoded,    \* the fields process_events decoded from one payload
  behaviors,  \* per host: Host.behaviors, the (name, factory) pairs in order
  regs,       \* per host: register_behavior calls that returned
  lookups,    \* the SC_ATTACH_BEHAVIOR notifications handled, with their outcome
  hstack,     \* the lookups whose factory closure is running (list borrowed)
  hostPanic,  \* a RefCell borrow failed: the notification handler panicked
  payloads,   \* the HostCallback payloads boxed so far, live or freed
  cbPtr,      \* per host: the payload given to SciterSetCallback for its window
  dbgPtr,     \* the payload given to SciterSetupDebugOutput
  hostSt,     \* per host: whether the Host value exists or was dropped
  dangling,   \* the engine called back with a freed payload
  addRefs,    \* per foreign handle: add-ref calls issued on it
  releases,   \* per foreign handle: release calls issued on it
  wrappers,   \* per foreign handle: live wrappers holding it
  ops,        \* per foreign handle: wrapper operations performed, by kind
  assetPanic, \* an assertion of AssetPtr failed: the process is gone
  vthread,    \* VideoGen.thread: the JoinHandle held (0: None)
  tpc,        \* per worker thread: its position in generation_thread
  frames,     \* per worker thread: render_frame_part calls made
  alive,      \* what the destination's is_alive reports
  detachPc,   \* the position of VideoGen::detached
  joinTid,    \* the thread VideoGen::detached is joining (0: none)
  binds,      \* VIDEO_BIND_RQ notifications handled
  selected,   \* the last selector query on an element, with its outcome
  builder,    \* a window::Builder, and the rectangle Window::create was given
  painted,    \* the last Image::paint call, with its outcome
  elems,      \* the dom::Element wrappers made, each with the handle it holds
  engine      \* per element handle: the Use, Unuse and Delete calls issued

tvars == <<box, dropCount, notes, calls, rets, stack, crashed, payload>>

dvars == <<decoded>>

cvars == <<payloads, cbPtr, dbgPtr, hostSt, dangling>>

hvars == <<behaviors, regs, lookups, hstack, hostPanic, cvars>>

avars == <<addRefs, releases, wrappers, ops, assetPanic>>

vvars == <<vthread, tpc, frames, alive, detachPc, joinTid, binds>>

svars == <<selected>>

bvars == <<builder>>

pvars == <<painted>>

evars == <<elems, engine>>

vars == <<tvars, dvars, hvars, avars, vvars, svars, bvars, pvars, evars>>

-----------------------------------------------------------------------------
(* Bounds *)

MaxNotes == 3     \* notifications delivered in one run
MaxDepth == 2     \* nesting depth of re-entrant trampoline invocations
MaxDispatch == 2  \* notifications delivered from the message loop in one run
MaxRegs == 3      \* register_behavior calls in one run
MaxLookups == 2   \* SC_ATTACH_BEHAVIOR notifications in one run
MaxOps == 4       \* wrapper operations in one run
MaxBinds == 2     \* VIDEO_BIND_RQ notifications in one run
MaxFrames == 2    \* frames one worker thread renders in one run
MaxMatches == 3   \* elements the engine offers for one selector
MaxSteps == 3     \* builder methods called before Builder::create
MaxElems == 3     \* Element wrappers made in one run
MaxSetups == 2    \* setup_callback calls after the hosts were attached

-----------------------------------------------------------------------------
(* Engine enumerations (capi::scbehavior) *)

SUBSCRIPTIONS_REQUEST == "SUBSCRIPTIONS_REQUEST"
HANDLE_INITIALIZATION == "HANDLE_INITIALIZATION"
HANDLE_BEHAVIOR_EVENT == "HANDLE_BEHAVIOR_EVENT"
HANDLE_SCRIPTING_METHOD_CALL == "HANDLE_SCRIPTING_METHOD_CALL"
HANDLE_TIMER == "HANDLE_TIMER"
HANDLE_MOUSE == "HANDLE_MOUSE"

EVENT_GROUPS ==
  {SUBSCRIPTIONS_REQUEST, HANDLE_INITIALIZATION, HANDLE_BEHAVIOR_EVENT,
   HANDLE_SCRIPTING_METHOD_CALL, HANDLE_TIMER, HANDLE_MOUSE}

BEHAVIOR_ATTACH == "BEHAVIOR_ATTACH"
BEHAVIOR_DETACH == "BEHAVIOR_DETACH"

\* The groups process_events has an arm for.
KnownGroups ==
  {SUBSCRIPTIONS_REQUEST, HANDLE_INITIALIZATION, HANDLE_BEHAVIOR_EVENT,
   HANDLE_SCRIPTING_METHOD_CALL, HANDLE_TIMER}

\* A group code of a later engine, taken by the `_` arm of the match.
FUTURE_GROUP == "FUTURE_GROUP"

BUTTON_CLICK == 0
EDIT_VALUE_CHANGING == 3
EDIT_VALUE_CHANGED == 4
VIDEO_BIND_RQ == 212
DOCUMENT_COMPLETE == 152
DOCUMENT_CLOSE == 194

BUBBLING == 0
SINKING == 32768
HANDLED == 65536

CodeMask == 4096   \* nm.cmd & 0x0_0FFF keeps cmd modulo 2^12

Shapes == {"window", "element", "behavior"}
Handlers == {"h1"}
AllHandlers == {"h1", "h2"}
NULL == "null"

-----------------------------------------------------------------------------
(* Helpers *)

Last(s) == s[Len(s)]
Pop(s) == SubSeq(s, 1, Len(s) - 1)
Put(s, n, v) == IF n > Len(s) THEN Append(s, v) ELSE [s EXCEPT ![n] = v]

-----------------------------------------------------------------------------
(* Notification payloads *)

\* The element handles a BEHAVIOR_EVENT_PARAMS payload carries (he, heTarget).
PayloadElems == {<<"e2", "e3">>}

\* The element handle passed beside an attach notification; for a window-level
\* handler the outcome of Element::from_window (null without a document).
HeSet == {"e1", NULL}

\* The combined code|phase fields the engine sends.
CmdSet ==
  {c + p : c \in {BUTTON_CLICK, DOCUMENT_COMPLETE, DOCUMENT_CLOSE},
           p \in {BUBBLING, SINKING}}
  \cup {DOCUMENT_COMPLETE + SINKING + HANDLED}

\* One trampoline invocation: tag h, element he, group evtg and the payload
\* behind params (init: an INITIALIZATION_EVENTS; cmd, source, target, reason:
\* a BEHAVIOR_EVENT_PARAMS; name, argv, slot: a SCRIPTING_METHOD_PARAMS with
\* its result slot; slot: the EVENT_GROUPS behind a subscription request;
\* timerId: a TIMER_PARAMS).
Note(h, evtg, init, he, cmd, se) ==
  [h |-> h, evtg |-> evtg, init |-> init, he |-> he, cmd |-> cmd,
   source |-> se[1], target |-> se[2], params |-> "ptr", reason |-> 0,
   name |-> "-", argv |-> <<>>, slot |-> "-", timerId |-> 0]

NoteSet(h) ==
  {Note(h, HANDLE_INITIALIZATION, BEHAVIOR_ATTACH, he, 0, <<"-", "-">>) :
      he \in HeSet}
  \cup {Note(h, HANDLE_INITIALIZATION, BEHAVIOR_DETACH, "e1", 0, <<"-", "-">>)}
  \cup {Note(h, HANDLE_BEHAVIOR_EVENT, "-", "e1", c, se) :
      c \in CmdSet, se \in PayloadElems}

-----------------------------------------------------------------------------
(* eventhandler.rs *)

\* Mutant: the code is taken from the low 8 bits only.
DecodeCode_low8(cmd) == cmd % 256

\* nm.cmd & 0x0_0FFF
DecodeCode(cmd) == cmd % CodeMask

\* Mutant: the phase bits are dropped.
DecodePhase_none(cmd) == BUBBLING

\* nm.cmd & 0xFFFF_F000, cmd being a 32-bit value
DecodePhase(cmd) == cmd - (cmd % CodeMask)

\* Mutant: the variant follows the reason field, not the code.
DecodeReason_by_value(code, reason) ==
  IF reason = 0 THEN <<"General", reason>> ELSE <<"EditChanged", reason>>

\* The EventReason handed to on_event: its variant and what it carries.
DecodeReason(code, reason) ==
  CASE code \in {EDIT_VALUE_CHANGED, EDIT_VALUE_CHANGING} ->
         <<"EditChanged", reason>>
    [] code = VIDEO_BIND_RQ -> <<"VideoBind", reason>>
    [] OTHER -> <<"General", reason>>

\* u2s!(nm.name): the method name as a String.
u2s(name) == name.wide

\* Mutant: only the first argument is unpacked.
unpack_from_first(argv, argc) ==
  [i \in 1..(IF argc > 1 THEN 1 ELSE argc) |-> argv[i].v]

\* Value::unpack_from(nm.argv, nm.argc): one Value per foreign VALUE.
unpack_from(argv, argc) == [i \in 1..argc |-> argv[i].v]

\* Mutant: the timer arm reads its payload without checking the pointer.
AssertFails_timer_unchecked(note) ==
  note.params = NULL /\ note.evtg \in KnownGroups \ {HANDLE_TIMER}

\* assert!(!params.is_null()) fails: in is_detach_event and in the window
\* trampoline for the initialization group, in process_events for the
\* other groups it has an arm for.
AssertFails(note) == note.params = NULL /\ note.evtg \in KnownGroups

\* The trampoline dereferences params (after the assertion passed).
PayloadRead(note) == note.params # NULL /\ note.evtg \in KnownGroups

is_detach_event(note) ==
  note.evtg = HANDLE_INITIALIZATION /\ note.init = BEHAVIOR_DETACH

\* Mutant: the document hooks fire in every phase.
DocumentHooks_any_phase(note) ==
  CASE DecodeCode(note.cmd) = DOCUMENT_COMPLETE -> <<"document_complete">>
    [] DecodeCode(note.cmd) = DOCUMENT_CLOSE -> <<"document_close">>
    [] OTHER -> <<>>

\* The document hooks process_events calls before on_event.
DocumentHooks(note) ==
  IF DecodePhase(note.cmd) = SINKING
  THEN CASE DecodeCode(note.cmd) = DOCUMENT_COMPLETE -> <<"document_complete">>
         [] DecodeCode(note.cmd) = DOCUMENT_CLOSE -> <<"document_close">>
         [] OTHER -> <<>>
  ELSE <<>>

\* Mutant: a null element handle ends the dispatch before any handler
\* method is called.
process_events_calls_null_guard(note) ==
  IF note.he = NULL /\ note.evtg # SUBSCRIPTIONS_REQUEST THEN <<>>
  ELSE CASE note.evtg = SUBSCRIPTIONS_REQUEST -> <<"get_subscription">>
         [] note.evtg = HANDLE_INITIALIZATION ->
              IF note.init = BEHAVIOR_DETACH THEN <<"detached">>
              ELSE <<"attached">>
         [] note.evtg = HANDLE_BEHAVIOR_EVENT ->
              DocumentHooks(note) \o <<"on_event">>
         [] note.evtg = HANDLE_SCRIPTING_METHOD_CALL -> <<"on_script_call">>
         [] note.evtg = HANDLE_TIMER -> <<"on_timer">>
         [] OTHER -> <<>>

\* Mutant: a timer notification is passed on to on_event as well.
process_events_calls_timer_event(note) ==
  CASE note.evtg = SUBSCRIPTIONS_REQUEST -> <<"get_subscription">>
    [] note.evtg = HANDLE_INITIALIZATION ->
         IF note.init = BEHAVIOR_DETACH THEN <<"detached">> ELSE <<"attached">>
    [] note.evtg = HANDLE_BEHAVIOR_EVENT -> DocumentHooks(note) \o <<"on_event">>
    [] note.evtg = HANDLE_SCRIPTING_METHOD_CALL -> <<"on_script_call">>
    [] note.evtg = HANDLE_TIMER -> <<"on_timer", "on_event">>
    [] OTHER -> <<>>

\* The handler methods process_events calls for a notification, in order.
process_events_calls(note) ==
  CASE note.evtg = SUBSCRIPTIONS_REQUEST -> <<"get_subscription">>
    [] note.evtg = HANDLE_INITIALIZATION ->
         IF note.init = BEHAVIOR_DETACH THEN <<"detached">> ELSE <<"attached">>
    [] note.evtg = HANDLE_BEHAVIOR_EVENT -> DocumentHooks(note) \o <<"on_event">>
    [] note.evtg = HANDLE_SCRIPTING_METHOD_CALL -> <<"on_script_call">>
    [] note.evtg = HANDLE_TIMER -> <<"on_timer">>
    [] OTHER -> <<>>

\* Mutant: every notification group is reported as handled.
process_events_result_default_true(note, cs) ==
  CASE note.evtg = SUBSCRIPTIONS_REQUEST ->
         IF Last(cs).ret = "Some" THEN "TRUE" ELSE "FALSE"
    [] note.evtg = HANDLE_INITIALIZATION -> "TRUE"
    [] note.evtg = HANDLE_BEHAVIOR_EVENT -> Last(cs).ret
    [] note.evtg = HANDLE_SCRIPTING_METHOD_CALL ->
         IF Last(cs).ret = "Some" THEN "TRUE" ELSE "FALSE"
    [] note.evtg = HANDLE_TIMER -> Last(cs).ret
    [] OTHER -> "TRUE"

\* Mutant: a behavior event is always reported as handled.
process_events_result_handled(note, cs) ==
  CASE note.evtg = SUBSCRIPTIONS_REQUEST ->
         IF Last(cs).ret = "Some" THEN "TRUE" ELSE "FALSE"
    [] note.evtg = HANDLE_SCRIPTING_METHOD_CALL ->
         IF Last(cs).ret = "Some" THEN "TRUE" ELSE "FALSE"
    [] note.evtg = HANDLE_TIMER -> Last(cs).ret
    [] note.evtg \in {HANDLE_INITIALIZATION, HANDLE_BEHAVIOR_EVENT} -> "TRUE"
    [] OTHER -> "FALSE"

\* What process_events returns, given the completed calls cs of the notification.
process_events_result(note, cs) ==
  CASE note.evtg = SUBSCRIPTIONS_REQUEST ->
         IF Last(cs).ret = "Some" THEN "TRUE" ELSE "FALSE"
    [] note.evtg = HANDLE_INITIALIZATION -> "TRUE"
    [] note.evtg = HANDLE_BEHAVIOR_EVENT -> Last(cs).ret
    [] note.evtg = HANDLE_SCRIPTING_METHOD_CALL ->
         IF Last(cs).ret = "Some" THEN "TRUE" ELSE "FALSE"
    [] note.evtg = HANDLE_TIMER -> Last(cs).ret
    [] OTHER -> "FALSE"

\* What Some(x) returned by a handler method carries.
Returned(m) ==
  CASE m = "get_subscription" -> "needed"
    [] m = "on_script_call" -> "v"
    [] OTHER -> "-"

\* Mutant: the slot is written whatever the handler returned.
process_events_slot_always(note, cs) ==
  IF note.evtg \in {SUBSCRIPTIONS_REQUEST, HANDLE_SCRIPTING_METHOD_CALL}
  THEN Returned(Last(cs).m)
  ELSE note.slot

\* The payload slot when process_events returns: *nm = needed for a
\* subscription, v.pack_to(&mut nm.result) for a script call, both only
\* when the handler returned Some.
process_events_slot(note, cs) ==
  IF /\ note.evtg \in {SUBSCRIPTIONS_REQUEST, HANDLE_SCRIPTING_METHOD_CALL}
     /\ Last(cs).ret = "Some"
  THEN Returned(Last(cs).m)
  ELSE note.slot

\* The steps of each trampoline: handler methods, and "drop" for
\* Box::from_raw(boxed) followed by drop(ptr).
\* Mutant: the window trampoline handles the attach notification and then
\* forwards it to process_events as well.
event_handler_window_proc_calls_forward(note) ==
  IF note.evtg = HANDLE_INITIALIZATION
  THEN IF note.init = BEHAVIOR_ATTACH
       THEN <<"attached">> \o process_events_calls(note)
       ELSE <<"detached", "drop">>
  ELSE process_events_calls(note)

event_handler_window_proc_calls(note) ==
  IF note.evtg = HANDLE_INITIALIZATION
  THEN IF note.init = BEHAVIOR_ATTACH THEN <<"attached">>
       ELSE <<"detached", "drop">>
  ELSE process_events_calls(note)

event_handler_behavior_proc_calls(note) ==
  IF is_detach_event(note) THEN <<"detached", "drop">>
  ELSE process_events_calls(note)

\* Mutant: the detach notification is dispatched without reclaiming the box.
event_handler_proc_calls_leak(note) == process_events_calls(note)

event_handler_proc_calls(note) ==
  IF is_detach_event(note) THEN <<"detached", "drop">>
  ELSE process_events_calls(note)

TrampolineCalls(shape, note) ==
  CASE shape = "window" -> event_handler_window_proc_calls(note)
    [] shape = "behavior" -> event_handler_behavior_proc_calls(note)
    [] OTHER -> event_handler_proc_calls(note)

TrampolineResult(shape, note, cs) ==
  IF shape = "window" /\ note.evtg = HANDLE_INITIALIZATION THEN "TRUE"
  ELSE IF shape # "window" /\ is_detach_event(note) THEN "TRUE"
  ELSE process_events_result(note, cs)

\* The values a handler method may return.
RetSet(m) ==
  CASE m \in {"on_event", "on_timer"} -> {"TRUE", "FALSE"}
    [] m \in {"get_subscription", "on_script_call"} -> {"Some", "None"}
    [] OTHER -> {"unit"}

\* One call of handler method m with the arguments the trampoline passes.
Call(m, note) ==
  [m |-> m,
   root |-> note.he,
   source |-> IF m = "on_event" THEN note.source ELSE "-",
   target |-> IF m \in {"on_event", "document_complete", "document_close"}
              THEN note.target ELSE "-",
   code |-> IF m = "on_event" THEN DecodeCode(note.cmd) ELSE -1,
   phase |-> IF m = "on_event" THEN DecodePhase(note.cmd) ELSE -1,
   arg |-> CASE m = "on_event" ->
                  DecodeReason(DecodeCode(note.cmd), note.reason)
             [] m = "on_script_call" ->
                  <<u2s(note.name), unpack_from(note.argv, Len(note.argv))>>
             [] m = "on_timer" -> <<note.timerId>>
             [] OTHER -> <<>>,
   ret |-> "pending"]

DropEntry ==
  [m |-> "drop", root |-> "-", source |-> "-", target |-> "-",
   code |-> -1, phase |-> -1, arg |-> <<>>, ret |-> "unit"]

\* Mutant: the reclaim takes every live handler with it.
Reclaimed_all(note) == {h \in DOMAIN box : box[h].st = "live"}

\* Box::from_raw(boxed): the allocation behind the tag, and no other.
Reclaimed(note) == {note.h}

\* An assertion failed in some trampoline invocation: the process is gone.
Panicked == \E i \in 1..Len(rets) : rets[i] = "panic"

Slot(note, cs, done) ==
  [slot |-> IF done THEN process_events_slot(note, cs) ELSE note.slot,
   read |-> PayloadRead(note)]

\* Mutant: the trampoline returns after its first handler call and leaves
\* the rest of the notification for later.
NextStep_defer(plan, k) == IF k > 1 \/ k > Len(plan) THEN "return" ELSE plan[k]

\* The step a trampoline takes after k - 1 completed steps of its plan.
NextStep(plan, k) == IF k > Len(plan) THEN "return" ELSE plan[k]

\* The trampoline invocation n (its frame on top of stk) runs on after the
\* completed calls cs: up to its next handler method call, or to its return.
\* An assertion that fails at the entry of the invocation panics with the
\* invocation's frame, and every frame below it, still on the stack; the
\* model does not follow the process past the panic.
Advance(n, note, cs, stk) ==
  LET shape == box[note.h].shape
      plan == TrampolineCalls(shape, note)
      k == Len(cs) + 1
      step == NextStep(plan, k)
  IN  IF cs = <<>> /\ AssertFails(note)
      THEN /\ calls' = Put(calls, n, <<>>)
           /\ rets' = Put(rets, n, "panic")
           /\ payload' = Put(payload, n, [slot |-> note.slot, read |-> FALSE])
           /\ stack' = stk
           /\ UNCHANGED <<box, dropCount>>
      ELSE IF step = "return"
      THEN /\ calls' = Put(calls, n, cs)
           /\ rets' = Put(rets, n, TrampolineResult(shape, note, cs))
           /\ payload' = Put(payload, n, Slot(note, cs, TRUE))
           /\ stack' = Pop(stk)
           /\ UNCHANGED <<box, dropCount>>
      ELSE IF step = "drop"
      THEN /\ calls' = Put(calls, n, Append(cs, DropEntry))
           /\ rets' = Put(rets, n, TrampolineResult(shape, note, cs))
           /\ payload' = Put(payload, n, Slot(note, cs, TRUE))
           /\ stack' = Pop(stk)
           /\ box' = [h \in DOMAIN box |->
                       IF h \in Reclaimed(note)
                       THEN [box[h] EXCEPT !.st = "freed"] ELSE box[h]]
           /\ dropCount' = [h \in DOMAIN dropCount |->
                             IF h \in Reclaimed(note)
                             THEN dropCount[h] + 1 ELSE dropCount[h]]
      ELSE /\ calls' = Put(calls, n, Append(cs, Call(step, note)))
           /\ rets' = Put(rets, n, "pending")
           /\ payload' = Put(payload, n, Slot(note, cs, FALSE))
           /\ stack' = stk
           /\ UNCHANGED <<box, dropCount>>

\* The engine has sent h its detach notification and never uses the tag again.
EngineDetached(h) ==
  \E i \in 1..Len(notes) : notes[i].h = h /\ is_detach_event(notes[i])

-----------------------------------------------------------------------------
(* Actions of the trampoline machine *)

\* Element::attach_handler, Host::attach_handler or the registry lookup boxes
\* a handler and hands the pointer to the engine.
\* ok is the engine's answer to SciterAttachEventHandler or
\* SciterWindowAttachEventHandler: on a failure code Element::attach_handler
\* returns Err and Host::attach_handler returns as ever, the box stays
\* allocated and the engine, which did not take the tag, never calls back.
Boxed(h, shape, ok) ==
  /\ ~crashed /\ ~Panicked
  /\ box[h].st = "none"
  /\ ok \/ shape \in {"element", "window"}
  /\ box' = [box EXCEPT ![h] = [st |-> IF ok THEN "live" ELSE "rejected",
                                shape |-> shape]]
  /\ UNCHANGED <<dropCount, notes, calls, rets, stack, crashed, payload>>

AttachHandler(h, shape, ok) ==
  /\ Boxed(h, shape, ok)
  /\ UNCHANGED <<dvars, svars, hvars, avars, vvars, bvars, pvars, evars>>

\* The engine invokes the trampoline of h: from its message loop, or
\* re-entrantly from an engine call made by the handler method on top.
EngineDeliver(h, note) ==
  /\ ~crashed /\ ~Panicked
  /\ Len(notes) < MaxNotes
  /\ Len(stack) < MaxDepth
  /\ box[h].st \in {"live", "freed"}
  /\ ~EngineDetached(h)
  /\ notes' = Append(notes, note)
  /\ Advance(Len(notes) + 1, note, <<>>, Append(stack, Len(notes) + 1))
  /\ UNCHANGED <<crashed, dvars, svars, hvars, avars, vvars, bvars, pvars,
                 evars>>

\* The engine invokes the trampoline from its message loop, no callback of
\* the application being on the stack.
EngineDispatch(h, note) ==
  /\ stack = <<>>
  /\ Len(notes) < MaxDispatch
  /\ EngineDeliver(h, note)

\* The handler method on top of the stack returns r to its trampoline.
HandlerReturn(r) ==
  /\ ~crashed /\ ~Panicked
  /\ stack # <<>>
  /\ LET n == Last(stack)
         cs == calls[n]
         done == [cs EXCEPT ![Len(cs)].ret = r]
     IN  /\ r \in RetSet(Last(cs).m)
         /\ Advance(n, notes[n], done, stack)
  /\ UNCHANGED <<notes, crashed, dvars, svars, hvars, avars, vvars, bvars,
                 pvars, evars>>

\* The handler of the "custom-button" behavior: its on_event answers true
\* for BUTTON_CLICK in the bubbling phase only, its other methods are the
\* defaults of the trait.
ButtonAnswer(call) ==
  IF call.m # "on_event" THEN "unit"
  ELSE IF call.code = BUTTON_CLICK /\ call.phase = BUBBLING THEN "TRUE"
  ELSE "FALSE"

\* The method of the button handler on top of the stack returns.
ButtonReturn ==
  /\ stack # <<>>
  /\ calls[Last(stack)] # <<>>
  /\ HandlerReturn(ButtonAnswer(Last(calls[Last(stack)])))

\* A handler method running on a freed box: the process may die.
Crash ==
  /\ ~crashed /\ ~Panicked
  /\ \E i \in 1..Len(stack) : box[notes[stack[i]].h].st = "freed"
  /\ crashed' = TRUE
  /\ UNCHANGED <<box, dropCount, notes, calls, rets, stack, payload>>
  /\ UNCHANGED <<dvars, svars, hvars, avars, vvars, bvars, pvars, evars>>

TInit ==
  /\ box = [h \in AllHandlers |-> [st |-> "none", shape |-> "none"]]
  /\ dropCount = [h \in AllHandlers |-> 0]
  /\ notes = <<>>
  /\ calls = <<>>
  /\ rets = <<>>
  /\ stack = <<>>
  /\ crashed = FALSE
  /\ payload = <<>>

TNext ==
  \/ \E h \in Handlers, s \in Shapes, ok \in BOOLEAN : AttachHandler(h, s, ok)
  \/ \E h \in Handlers : \E note \in NoteSet(h) : EngineDeliver(h, note)
  \/ \E r \in {"TRUE", "FALSE", "Some", "None", "unit"} : HandlerReturn(r)
  \/ Crash

\* The notifications of every group, with and without a payload, that the
\* message loop delivers.
EditCmds ==
  {c + p : c \in {EDIT_VALUE_CHANGING, EDIT_VALUE_CHANGED, VIDEO_BIND_RQ},
           p \in {BUBBLING, SINKING}}

WithNull(S) == S \cup {[x EXCEPT !.params = NULL] : x \in S}

\* Notifications the engine delivers with a null element handle.
NullElementNotes(h) ==
  {Note(h, HANDLE_INITIALIZATION, BEHAVIOR_ATTACH, NULL, 0, <<"-", "-">>),
   Note(h, HANDLE_BEHAVIOR_EVENT, "-", NULL, BUTTON_CLICK + BUBBLING,
        <<"e2", "e3">>),
   Note(h, HANDLE_BEHAVIOR_EVENT, "-", NULL, DOCUMENT_CLOSE + SINKING,
        <<"e2", "e3">>),
   [Note(h, HANDLE_SCRIPTING_METHOD_CALL, "-", NULL, 0, <<"-", "-">>)
     EXCEPT !.name = [wide |-> "f"], !.slot = "undef"],
   [Note(h, HANDLE_TIMER, "-", NULL, 0, <<"-", "-">>) EXCEPT !.timerId = 7]}

DispatchNoteSet(h) ==
  {Note(h, HANDLE_INITIALIZATION, BEHAVIOR_ATTACH, "e1", 0, <<"-", "-">>),
   Note(h, HANDLE_INITIALIZATION, BEHAVIOR_DETACH, "e1", 0, <<"-", "-">>)}
  \cup {[Note(h, HANDLE_INITIALIZATION, BEHAVIOR_ATTACH, "e1", 0, <<"-", "-">>)
          EXCEPT !.params = NULL]}
  \cup WithNull({[Note(h, SUBSCRIPTIONS_REQUEST, "-", "e1", 0, <<"-", "-">>)
                   EXCEPT !.slot = "all"]})
  \cup WithNull({[Note(h, HANDLE_SCRIPTING_METHOD_CALL, "-", "e1", 0,
                        <<"-", "-">>)
                   EXCEPT !.name = [wide |-> "f"], !.argv = a, !.slot = "undef"] :
                  a \in {<<>>, <<[v |-> 1], [v |-> 2]>>}})
  \cup WithNull({[Note(h, HANDLE_TIMER, "-", "e1", 0, <<"-", "-">>)
                   EXCEPT !.timerId = 7]})
  \cup WithNull({Note(h, g, "-", "e1", 0, <<"-", "-">>) :
                  g \in {HANDLE_MOUSE, FUTURE_GROUP}})
  \cup {[Note(h, HANDLE_BEHAVIOR_EVENT, "-", "e1", c, <<"e2", "e3">>)
          EXCEPT !.reason = r] :
        c \in EditCmds \cup {BUTTON_CLICK + BUBBLING, DOCUMENT_CLOSE + SINKING},
        r \in {0, 1}}
  \cup {[Note(h, HANDLE_BEHAVIOR_EVENT, "-", "e1", BUTTON_CLICK, <<"e2", "e3">>)
          EXCEPT !.params = NULL]}
  \cup NullElementNotes(h)

DispatchNext ==
  \/ \E h \in Handlers, s \in Shapes : AttachHandler(h, s, TRUE)
  \/ \E h \in Handlers : \E note \in DispatchNoteSet(h) : EngineDispatch(h, note)
  \/ \E r \in {"TRUE", "FALSE", "Some", "None", "unit"} : HandlerReturn(r)

\* The notifications sent to each of two handlers attached side by side.
PairNoteSet(h) ==
  {Note(h, HANDLE_INITIALIZATION, BEHAVIOR_ATTACH, "e1", 0, <<"-", "-">>),
   Note(h, HANDLE_INITIALIZATION, BEHAVIOR_DETACH, "e1", 0, <<"-", "-">>),
   Note(h, HANDLE_BEHAVIOR_EVENT, "-", "e1", DOCUMENT_COMPLETE + SINKING,
        <<"e2", "e3">>)}

PairNext ==
  \/ \E h \in AllHandlers, s \in Shapes : AttachHandler(h, s, TRUE)
  \/ \E h \in AllHandlers : \E note \in PairNoteSet(h) : EngineDeliver(h, note)
  \/ \E r \in {"TRUE", "FALSE", "unit"} : HandlerReturn(r)
  \/ Crash

-----------------------------------------------------------------------------
(* process_events: decoding one BEHAVIOR_EVENT_PARAMS *)

\* The 32-bit cmd fields and the reason fields decoded. A UINT v from 2^31
\* up is written v - 2^32, its value as a two's complement number: -1 is
\* 0xFFFF_FFFF and -4096 is 0xFFFF_F000.
CmdSamples ==
  {c + p * CodeMask :
     c \in {0, 1, 3, 4, 152, 194, 212, 255, 256, 2048, 4095},
     p \in {0, 1, 8, 16, 24, 524287, -524288, -1}}

ReasonSamples == {0, 1, 2}

\* Lines 148 to 164 of process_events on one payload.
Decode(cmd, reason) ==
  /\ decoded' = [cmd |-> cmd, reason |-> reason,
                 code |-> DecodeCode(cmd), phase |-> DecodePhase(cmd),
                 variant |-> DecodeReason(DecodeCode(cmd), reason)]
  /\ UNCHANGED <<tvars, hvars, avars, vvars, svars, bvars, pvars, evars>>

DInit ==
  decoded = [cmd |-> -1, reason |-> 0, code |-> -1, phase |-> -1,
             variant |-> <<"-", 0>>]

DNext == \E cmd \in CmdSamples, reason \in ReasonSamples : Decode(cmd, reason)

-----------------------------------------------------------------------------
(* host.rs: the behavior registry *)

BehaviorNames == {"a", "b"}
Factories == {"A", "B"}

\* The Host objects of the application, each made by Host::attach with a
\* list of its own; Hosts is the one host of the single-window runs.
Hosts == {"w1"}
AllHosts == {"w1", "w2"}

\* Mutant: the scan keeps the last entry with the requested name.
FindBehavior_last(list, name) ==
  LET hits == {i \in 1..Len(list) : list[i].name = name}
  IN  IF hits = {} THEN 0 ELSE CHOOSE i \in hits : \A j \in hits : j <= i

\* Mutant: a scan that finds no entry with the name settles for the first
\* entry of the list.
FindBehavior_any(list, name) ==
  LET hits == {i \in 1..Len(list) : list[i].name = name}
  IN  IF hits = {} THEN (IF list = <<>> THEN 0 ELSE 1)
      ELSE CHOOSE i \in hits : \A j \in hits : i <= j

\* callback.behaviors.borrow().iter().find(|x| x.0 == name): the index of the
\* first entry with the requested name, 0 when there is none.
FindBehavior(list, name) ==
  LET hits == {i \in 1..Len(list) : list[i].name = name}
  IN  IF hits = {} THEN 0 ELSE CHOOSE i \in hits : \A j \in hits : i <= j

\* Mutant: the list is scanned whatever the host handler answered.
RegistryConsulted_always(re) == TRUE

\* `if !re`: the list is scanned when HostHandler::on_attach_behavior
\* returned false.
RegistryConsulted(re) == ~re

\* Mutant: the payload of a callback gets a list of its own.
PayloadList_fresh(w) == "fresh"

\* HostCallback.behaviors: Rc::clone(&self.behaviors), the list of host w.
PayloadList(w) == w

\* The list behind callback.behaviors in the callback of the window of w.
CallbackList(w) == payloads[cbPtr[w]].list

\* The outcome of one SC_ATTACH_BEHAVIOR notification sent to the callback of
\* host w (via: the payload the engine passed); re is the UINT the handler
\* returns, -1 while the factory has not returned.
Lookup(w, name, override, invoked, proc, tag, re) ==
  [host |-> w, via |-> cbPtr[w], name |-> name, len |-> Len(behaviors[w]),
   override |-> override, invoked |-> invoked, proc |-> proc, tag |-> tag,
   re |-> re]

\* The list of host w is borrowed by a lookup whose factory is running.
Borrowed(w) == \E i \in 1..Len(hstack) : lookups[hstack[i]].host = w

\* Mutant: a registration under a name the list already holds replaces the
\* factory of that entry.
register_behavior_replace(w, name, factory) ==
  /\ ~hostPanic /\ ~dangling
  /\ hostSt[w] = "attached"
  /\ regs[w] < MaxRegs
  /\ IF Borrowed(w)
     THEN /\ hostPanic' = TRUE
          /\ UNCHANGED <<behaviors, regs, lookups, hstack>>
     ELSE /\ behaviors' = [behaviors EXCEPT ![w] =
               IF FindBehavior(@, name) = 0
               THEN Append(@, [name |-> name, factory |-> factory])
               ELSE [@ EXCEPT ![FindBehavior(@, name)].factory = factory]]
          /\ regs' = [regs EXCEPT ![w] = @ + 1]
          /\ UNCHANGED <<lookups, hstack, hostPanic>>
  /\ UNCHANGED <<cvars, tvars, dvars, svars, avars, vvars, bvars, pvars, evars>>

\* Mutant: one list serves every host.
register_behavior_shared(w, name, factory) ==
  /\ ~hostPanic /\ ~dangling
  /\ hostSt[w] = "attached"
  /\ regs[w] < MaxRegs
  /\ IF hstack # <<>>
     THEN /\ hostPanic' = TRUE
          /\ UNCHANGED <<behaviors, regs, lookups, hstack>>
     ELSE /\ behaviors' = [x \in DOMAIN behaviors |->
               IF x \in AllHosts
               THEN Append(behaviors[x], [name |-> name, factory |-> factory])
               ELSE behaviors[x]]
          /\ regs' = [regs EXCEPT ![w] = @ + 1]
          /\ UNCHANGED <<lookups, hstack, hostPanic>>
  /\ UNCHANGED <<cvars, tvars, dvars, svars, avars, vvars, bvars, pvars, evars>>

\* Host::register_behavior on host w: self.behaviors.borrow_mut().push(pair).
\* The mutable borrow panics while a lookup holds the list of w borrowed;
\* regs counts the calls that returned.
register_behavior(w, name, factory) ==
  /\ ~hostPanic /\ ~dangling
  /\ hostSt[w] = "attached"
  /\ regs[w] < MaxRegs
  /\ IF Borrowed(w)
     THEN /\ hostPanic' = TRUE
          /\ UNCHANGED <<behaviors, regs, lookups, hstack>>
     ELSE /\ behaviors' = [behaviors EXCEPT ![w] =
               Append(@, [name |-> name, factory |-> factory])]
          /\ regs' = [regs EXCEPT ![w] = @ + 1]
          /\ UNCHANGED <<lookups, hstack, hostPanic>>
  /\ UNCHANGED <<cvars, tvars, dvars, svars, avars, vvars, bvars, pvars, evars>>

\* _on_handle_notification of host w, SC_ATTACH_BEHAVIOR: the host handler is
\* asked first (override: it attached a handler itself through
\* attach_behavior and returned true); if it declines, the list is borrowed
\* and scanned, and the factory of the entry found is invoked with the list
\* still borrowed.
on_attach_behavior(w, name, override) ==
  /\ ~hostPanic /\ ~dangling
  /\ payloads[cbPtr[w]].st = "live"
  /\ Len(lookups) < MaxLookups
  /\ LET list == behaviors[CallbackList(w)]
         i == FindBehavior(list, name)
         proc == IF override THEN "host" ELSE "-"
         tag == IF override THEN <<"host", "-">> ELSE <<"-", "-">>
     IN  IF ~RegistryConsulted(override) \/ i = 0
         THEN /\ lookups' = Append(lookups,
                   Lookup(w, name, override, <<>>, proc, tag,
                          IF override THEN 1 ELSE 0))
              /\ UNCHANGED hstack
         ELSE /\ lookups' = Append(lookups,
                   Lookup(w, name, override, <<list[i].factory>>,
                          proc, tag, -1))
              /\ hstack' = Append(hstack, Len(lookups) + 1)
  /\ UNCHANGED <<behaviors, regs, hostPanic, cvars, tvars, dvars, svars,
                 avars, vvars, bvars, pvars, evars>>

\* The factory closure of the lookup on top returns its handler: the borrow
\* ends, the handler is boxed and the notification is answered.
Answered ==
  /\ ~hostPanic /\ ~dangling
  /\ hstack # <<>>
  /\ LET l == Last(hstack)
     IN  lookups' = [lookups EXCEPT
           ![l].proc = "_event_handler_behavior_proc",
           ![l].tag = <<"BoxedHandler", lookups[l].invoked[1]>>,
           ![l].re = 1]
  /\ hstack' = Pop(hstack)

FactoryReturn ==
  /\ Answered
  /\ UNCHANGED <<behaviors, regs, hostPanic, cvars, tvars, dvars, svars,
                 avars, vvars, bvars, pvars, evars>>

\* One HostCallback payload, boxed by NativeHandler::from for host w.
Payload(w) == [host |-> w, list |-> PayloadList(w), st |-> "live"]

\* Host::setup_callback on host w, called from the message loop: the new
\* payload replaces the one in self.handler, which is dropped, and its
\* pointer is registered for the window of w and for the debug output.
setup_callback(w) ==
  /\ ~hostPanic /\ ~dangling
  /\ hostSt[w] = "attached"
  /\ hstack = <<>>
  /\ Len(payloads) < Cardinality(AllHosts) + MaxSetups
  /\ payloads' = Append([payloads EXCEPT ![cbPtr[w]].st = "freed"], Payload(w))
  /\ cbPtr' = [cbPtr EXCEPT ![w] = Len(payloads) + 1]
  /\ dbgPtr' = Len(payloads) + 1
  /\ UNCHANGED <<behaviors, regs, lookups, hstack, hostPanic, hostSt, dangling>>
  /\ UNCHANGED <<tvars, dvars, svars, avars, vvars, bvars, pvars, evars>>

\* The Host value of w goes out of scope: its fields are dropped, the
\* payload in self.handler with them; no engine call is made.
DropHost(w) ==
  /\ ~hostPanic /\ ~dangling
  /\ hostSt[w] = "attached"
  /\ hstack = <<>>
  /\ hostSt' = [hostSt EXCEPT ![w] = "dropped"]
  /\ payloads' = [payloads EXCEPT ![cbPtr[w]].st = "freed"]
  /\ UNCHANGED <<behaviors, regs, lookups, hstack, hostPanic, cbPtr, dbgPtr,
                 dangling>>
  /\ UNCHANGED <<tvars, dvars, svars, avars, vvars, bvars, pvars, evars>>

\* The engine reports a message through the debug-output callback:
\* _on_debug_notification reads the payload behind the registered pointer.
EngineDebugOutput ==
  /\ ~hostPanic /\ ~dangling
  /\ \E w \in AllHosts : hostSt[w] = "attached"
  /\ payloads[dbgPtr].st = "freed"
  /\ dangling' = TRUE
  /\ UNCHANGED <<behaviors, regs, lookups, hstack, hostPanic, payloads, cbPtr,
                 dbgPtr, hostSt>>
  /\ UNCHANGED <<tvars, dvars, svars, avars, vvars, bvars, pvars, evars>>

\* Host::attach: behaviors: Default::default(), an empty list for each
\* host, and setup_callback(DefaultHandler::default()), w1 first.
HInit ==
  /\ payloads = <<Payload("w1"), Payload("w2")>>
  /\ cbPtr = [w \in AllHosts |-> IF w = "w1" THEN 1 ELSE 2]
  /\ dbgPtr = 2
  /\ hostSt = [w \in AllHosts |-> "attached"]
  /\ dangling = FALSE
  /\ behaviors = [w \in AllHosts \cup {"fresh"} |-> <<>>]
  /\ regs = [w \in AllHosts |-> 0]
  /\ lookups = <<>>
  /\ hstack = <<>>
  /\ hostPanic = FALSE

HNext ==
  \/ \E w \in Hosts, name \in BehaviorNames, f \in Factories :
       register_behavior(w, name, f)
  \/ \E w \in Hosts, name \in BehaviorNames, o \in BOOLEAN :
       on_attach_behavior(w, name, o)
  \/ FactoryReturn

\* The factory found by the lookup on top of the stack returns its handler;
\* on_attach_behavior boxes it, stores _event_handler_behavior_proc and the
\* box in the notification and answers 1, and the engine attaches it as h.
BehaviorAttach(h) ==
  /\ Answered
  /\ Boxed(h, "behavior", TRUE)
  /\ UNCHANGED <<behaviors, regs, hostPanic, cvars, dvars, svars, avars,
                 vvars, bvars, pvars, evars>>

\* The notifications sent to the button: its attach and detach, clicks in
\* both phases and another event in the bubbling phase.
ButtonNoteSet(h) ==
  {Note(h, HANDLE_INITIALIZATION, i, "e1", 0, <<"-", "-">>) :
      i \in {BEHAVIOR_ATTACH, BEHAVIOR_DETACH}}
  \cup {Note(h, HANDLE_BEHAVIOR_EVENT, "-", "e1", c, <<"e2", "e3">>) :
      c \in {BUTTON_CLICK + BUBBLING, BUTTON_CLICK + SINKING,
              EDIT_VALUE_CHANGED + BUBBLING}}

\* A window with the behavior "custom-button" registered, an element that
\* asks for it, and the notifications sent to the handler attached to it.
BehaviorNext ==
  \/ register_behavior("w1", "custom-button", "A")
  \/ on_attach_behavior("w1", "custom-button", FALSE)
  \/ \E h \in Handlers : BehaviorAttach(h)
  \/ \E h \in Handlers : \E note \in ButtonNoteSet(h) : EngineDeliver(h, note)
  \/ ButtonReturn

\* Two hosts whose callbacks are replaced and which are dropped, with one
\* name registered and looked up on the first.
CallbackNext ==
  \/ \E name \in BehaviorNames : register_behavior("w1", name, "A")
  \/ on_attach_behavior("w1", "a", FALSE)
  \/ FactoryReturn
  \/ \E w \in AllHosts : setup_callback(w)
  \/ \E w \in AllHosts : DropHost(w)
  \/ EngineDebugOutput

\* Two hosts side by side, registering and looking up one name.
HostsNext ==
  \/ \E w \in AllHosts, f \in Factories : register_behavior(w, "a", f)
  \/ \E w \in AllHosts : on_attach_behavior(w, "a", FALSE)
  \/ FactoryReturn

-----------------------------------------------------------------------------
(* video.rs and graphics.rs: the reference-counted handle wrappers *)

AssetPtrs == {"site", "frag"}
GfxHandles == {"image", "path", "gfx"}
AllHandles == AssetPtrs \cup GfxHandles

\* The pointers a wrapper may be asked to wrap: a handle, or null.
Pointers == AllHandles \cup {NULL}

OpKinds ==
  {"attach", "adopt", "query", "create", "unwrap", "clone", "drop"}

OpsDone == LET RECURSIVE Sum(_)
               Sum(S) == IF S = {} THEN 0
                         ELSE LET x == CHOOSE x \in S : TRUE
                              IN  ops[x[1]][x[2]] + Sum(S \ {x})
           IN  Sum(Pointers \X OpKinds)

Count(p, kind) == ops' = [ops EXCEPT ![p][kind] = @ + 1]

\* Mutant: the pointer is wrapped unchecked.
NullPointer_unchecked(lp) == FALSE

\* assert!(!lp.is_null()) fails.
NullPointer(lp) == lp = NULL

\* AssetPtr::attach: the assertion, then the wrapper; no foreign call.
AssetPtr_attach(lp) ==
  IF NullPointer(lp)
  THEN assetPanic' = TRUE /\ UNCHANGED <<addRefs, releases, wrappers>>
  ELSE /\ wrappers' = [wrappers EXCEPT ![lp] = @ + 1]
       /\ UNCHANGED <<addRefs, releases, assetPanic>>

\* Mutant: adopt forgets the add_ref call.
AssetPtr_adopt_no_add_ref(lp) ==
  IF NullPointer(lp)
  THEN assetPanic' = TRUE /\ UNCHANGED <<addRefs, releases, wrappers>>
  ELSE /\ wrappers' = [wrappers EXCEPT ![lp] = @ + 1]
       /\ UNCHANGED <<addRefs, releases, assetPanic>>

\* AssetPtr::adopt: attach(lp), then me.get().add_ref().
AssetPtr_adopt(lp) ==
  IF NullPointer(lp)
  THEN assetPanic' = TRUE /\ UNCHANGED <<addRefs, releases, wrappers>>
  ELSE /\ wrappers' = [wrappers EXCEPT ![lp] = @ + 1]
       /\ addRefs' = [addRefs EXCEPT ![lp] = @ + 1]
       /\ UNCHANGED <<releases, assetPanic>>

\* Drop for AssetPtr: self.get().release().
AssetPtr_drop(lp) ==
  /\ wrappers' = [wrappers EXCEPT ![lp] = @ - 1]
  /\ releases' = [releases EXCEPT ![lp] = @ + 1]
  /\ UNCHANGED addRefs

\* NamedInterface::query_interface: one get_interface call on the source
\* object; Some(out) when out came back non-null, None otherwise.
query_interface(out) == IF out = NULL THEN <<>> ELSE <<out>>

\* Mutant: the pointer query_interface gave is attached, not adopted.
AssetPtr_try_from_attach(other, out) ==
  LET me == query_interface(out)
  IN  IF me # <<>> THEN AssetPtr_attach(me[1])
      ELSE UNCHANGED <<addRefs, releases, wrappers, assetPanic>>

\* AssetPtr::try_from(other): me.map(|p| AssetPtr::adopt(p)).ok_or(()).
AssetPtr_try_from(other, out) ==
  LET me == query_interface(out)
  IN  IF me # <<>> THEN AssetPtr_adopt(me[1])
      ELSE UNCHANGED <<addRefs, releases, wrappers, assetPanic>>

\* Image::new, Image::with_data, Image::load, Path::new: the handle the
\* engine's factory returned is wrapped as it comes, with the one reference
\* the factory gave it; on a failure code no wrapper is made.
gfx_create(h, ok) ==
  /\ IF ok THEN wrappers' = [wrappers EXCEPT ![h] = @ + 1]
     ELSE UNCHANGED wrappers
  /\ UNCHANGED <<addRefs, releases>>

\* Mutant: attach semantics, the unwrapped handle is wrapped as it comes.
from_value_attach(h, ok) ==
  /\ IF ok THEN wrappers' = [wrappers EXCEPT ![h] = @ + 1]
     ELSE UNCHANGED wrappers
  /\ UNCHANGED <<addRefs, releases>>

\* FromValue for Image, Path and Graphics: vUnWrapImage / vUnWrapPath /
\* vUnWrapGfx, and on OK imageAddRef / pathAddRef / gAddRef(h) and Some(h).
from_value(h, ok) ==
  IF ok
  THEN /\ addRefs' = [addRefs EXCEPT ![h] = @ + 1]
       /\ wrappers' = [wrappers EXCEPT ![h] = @ + 1]
       /\ UNCHANGED releases
  ELSE UNCHANGED <<addRefs, releases, wrappers>>

\* Mutant: clone copies the handle and issues no AddRef.
gfx_clone_no_add_ref(h) ==
  /\ wrappers' = [wrappers EXCEPT ![h] = @ + 1]
  /\ UNCHANGED <<addRefs, releases>>

\* Clone for Image, Path and Graphics: a second wrapper and one AddRef.
gfx_clone(h) ==
  /\ addRefs' = [addRefs EXCEPT ![h] = @ + 1]
  /\ wrappers' = [wrappers EXCEPT ![h] = @ + 1]
  /\ UNCHANGED releases

\* Drop for Image, Path and Graphics: one Release.
gfx_drop(h) ==
  /\ wrappers' = [wrappers EXCEPT ![h] = @ - 1]
  /\ releases' = [releases EXCEPT ![h] = @ + 1]
  /\ UNCHANGED addRefs

(* Actions of the handle machine *)

\* A failed assertion ends the process: nothing runs after it.
Attach(lp) ==
  /\ OpsDone < MaxOps /\ ~assetPanic
  /\ AssetPtr_attach(lp)
  /\ Count(lp, "attach")
  /\ UNCHANGED <<tvars, dvars, svars, hvars, vvars, bvars, pvars, evars>>

Adopt(lp) ==
  /\ OpsDone < MaxOps /\ ~assetPanic
  /\ AssetPtr_adopt(lp)
  /\ Count(lp, "adopt")
  /\ UNCHANGED <<tvars, dvars, svars, hvars, vvars, bvars, pvars, evars>>

TryFrom(other, out) ==
  /\ OpsDone < MaxOps /\ ~assetPanic
  /\ wrappers[other] > 0
  /\ AssetPtr_try_from(other, out)
  /\ ops' = [p \in Pointers |-> [k \in OpKinds |->
               ops[p][k] + (IF p = other /\ k = "query" THEN 1 ELSE 0)
                         + (IF p = out /\ out # NULL /\ k = "adopt"
                            THEN 1 ELSE 0)]]
  /\ UNCHANGED <<tvars, dvars, svars, hvars, vvars, bvars, pvars, evars>>

DropAsset(lp) ==
  /\ OpsDone < MaxOps /\ ~assetPanic
  /\ wrappers[lp] > 0
  /\ AssetPtr_drop(lp)
  /\ Count(lp, "drop")
  /\ UNCHANGED <<assetPanic, tvars, dvars, svars, hvars, vvars, bvars, pvars,
                 evars>>

\* The factory of the engine returns each handle once.
CreateGfx(h, ok) ==
  /\ OpsDone < MaxOps /\ ~assetPanic
  /\ ops[h]["create"] = 0
  /\ gfx_create(h, ok)
  /\ IF ok THEN Count(h, "create") ELSE UNCHANGED ops
  /\ UNCHANGED <<assetPanic, tvars, dvars, svars, hvars, vvars, bvars, pvars,
                 evars>>

FromValue(h, ok) ==
  /\ OpsDone < MaxOps /\ ~assetPanic
  /\ from_value(h, ok)
  /\ IF ok THEN Count(h, "unwrap") ELSE UNCHANGED ops
  /\ UNCHANGED <<assetPanic, tvars, dvars, svars, hvars, vvars, bvars, pvars,
                 evars>>

CloneGfx(h) ==
  /\ OpsDone < MaxOps /\ ~assetPanic
  /\ wrappers[h] > 0
  /\ gfx_clone(h)
  /\ Count(h, "clone")
  /\ UNCHANGED <<assetPanic, tvars, dvars, svars, hvars, vvars, bvars, pvars,
                 evars>>

DropGfx(h) ==
  /\ OpsDone < MaxOps /\ ~assetPanic
  /\ wrappers[h] > 0
  /\ gfx_drop(h)
  /\ Count(h, "drop")
  /\ UNCHANGED <<assetPanic, tvars, dvars, svars, hvars, vvars, bvars, pvars,
                 evars>>

AInit ==
  /\ addRefs = [h \in Pointers |-> 0]
  /\ releases = [h \in Pointers |-> 0]
  /\ wrappers = [h \in Pointers |-> 0]
  /\ ops = [h \in Pointers |-> [k \in OpKinds |-> 0]]
  /\ assetPanic = FALSE

ANext ==
  \/ \E lp \in AssetPtrs \cup {NULL} : Attach(lp)
  \/ \E lp \in AssetPtrs \cup {NULL} : Adopt(lp)
  \/ \E other \in AssetPtrs, out \in AssetPtrs \cup {NULL} : TryFrom(other, out)
  \/ \E lp \in AssetPtrs : DropAsset(lp)
  \/ \E h \in {"image", "path"}, ok \in BOOLEAN : CreateGfx(h, ok)
  \/ \E h \in GfxHandles, ok \in BOOLEAN : FromValue(h, ok)
  \/ \E h \in GfxHandles : CloneGfx(h)
  \/ \E h \in GfxHandles : DropGfx(h)

-----------------------------------------------------------------------------
(* dom.rs: selector queries *)

DomElements == {"d1", "d2", "d3", "d4"}

\* The elements matching a selector, in the order the engine enumerates them.
MatchLists ==
  LET n == IF MaxMatches < Cardinality(DomElements) THEN MaxMatches
           ELSE Cardinality(DomElements)
  IN  {m \in UNION {[1..k -> DomElements] : k \in 0..n} :
         \A i, j \in 1..Len(m) : i # j => m[i] # m[j]}

\* ElementVisitor::on_element of the two visitors: what the callback tells
\* the engine after pushing the element (true: stop the enumeration).
on_element(visitor) ==
  CASE visitor = "FindFirstElement" -> TRUE
    [] visitor = "FindAllElements" -> FALSE

\* SciterSelectElements calling inner for each match until inner returns
\* TRUE; the value is what the visitor has pushed by then.
RECURSIVE Enumerate(_, _)
Enumerate(matches, visitor) ==
  IF matches = <<>> THEN <<>>
  ELSE IF on_element(visitor) THEN <<Head(matches)>>
  ELSE <<Head(matches)>> \o Enumerate(Tail(matches), visitor)

\* Element::select_elements: Err on a failure code, else the visitor's result.
select_elements(matches, visitor, ok) ==
  IF ok THEN <<"Ok", Enumerate(matches, visitor)>> ELSE <<"Err", <<>>>>

\* Element::find_first: the visitor FindFirstElement, then x.pop().
find_first(matches, ok) ==
  LET all == select_elements(matches, "FindFirstElement", ok)
  IN  IF all[1] = "Ok"
      THEN <<"Ok", IF all[2] = <<>> THEN <<>> ELSE <<Last(all[2])>>>>
      ELSE all

\* Element::find_all: the visitor it constructs is FindFirstElement too;
\* then Some(x).
find_all(matches, ok) == select_elements(matches, "FindFirstElement", ok)

FindFirst(matches, ok) ==
  /\ selected' = [op |-> "find_first", matches |-> matches, ok |-> ok,
                  result |-> find_first(matches, ok)]
  /\ UNCHANGED <<tvars, dvars, hvars, avars, vvars, bvars, pvars, evars>>

FindAll(matches, ok) ==
  /\ selected' = [op |-> "find_all", matches |-> matches, ok |-> ok,
                  result |-> find_all(matches, ok)]
  /\ UNCHANGED <<tvars, dvars, hvars, avars, vvars, bvars, pvars, evars>>

SInit ==
  selected = [op |-> "-", matches |-> <<>>, ok |-> TRUE,
              result |-> <<"-", <<>>>>]

SNext ==
  \/ \E matches \in MatchLists, ok \in BOOLEAN : FindFirst(matches, ok)
  \/ \E matches \in MatchLists, ok \in BOOLEAN : FindAll(matches, ok)

-----------------------------------------------------------------------------
(* dom.rs: the Element wrapper *)

\* The handle of an element of the document, and the handle the engine
\* returns for the element SciterCreateElement makes.
DocHandle == "n1"
MadeHandle == "n2"
ElemHandles == {DocHandle, MadeHandle}

\* One call counted on the handle it was issued on.
Issued(h, call) == engine' = [engine EXCEPT ![h][call] = @ + 1]

\* A wrapper: he is the handle it holds, he0 the handle it held when made,
\* src the handle it was made for, unused the handle its drop passed to
\* Sciter_UnuseElement ("-" while it is alive).
Wrapper(kind, src, he) ==
  [kind |-> kind, src |-> src, he0 |-> he, he |-> he, destroyed |-> FALSE,
   unused |-> "-"]

\* Mutant: the handle is kept whatever Sciter_UseElement answered.
use_or_unchecked(he, ok) == he

\* Element::use_or: he when Sciter_UseElement answered OK, else null.
use_or(he, ok) == IF ok THEN he ELSE NULL

\* Mutant: destroy clears the handle only when the engine call succeeded.
destroy_keep_on_error(e, ok) ==
  IF ok THEN [e EXCEPT !.he = NULL, !.destroyed = TRUE]
  ELSE [e EXCEPT !.destroyed = TRUE]

\* Element::destroy: mem::swap(&mut self.he, &mut p) with p null, then
\* SciterDeleteElement(p).
destroy(e, ok) == [e EXCEPT !.he = NULL, !.destroyed = TRUE]

\* The engine refuses Sciter_UseElement on the null handle.
UseAnswers(he) == IF he = NULL THEN {FALSE} ELSE BOOLEAN

\* Element::from(he).
ElementFrom(he, ok) ==
  /\ Len(elems) < MaxElems
  /\ ok \in UseAnswers(he)
  /\ elems' = Append(elems, Wrapper("from", he, use_or(he, ok)))
  /\ Issued(he, IF ok THEN "use" ELSE "useFailed")
  /\ UNCHANGED <<tvars, dvars, hvars, avars, vvars, svars, bvars, pvars>>

\* Element::create: on OK the wrapper holds the new element with the
\* reference SciterCreateElement gave; on a failure code the wrapper, still
\* null, is dropped.
ElementCreate(ok) ==
  /\ Len(elems) < MaxElems
  /\ engine[MadeHandle]["given"] = 0
  /\ IF ok
     THEN /\ elems' = Append(elems, Wrapper("create", MadeHandle, MadeHandle))
          /\ Issued(MadeHandle, "given")
     ELSE /\ elems' = Append(elems,
                [Wrapper("create", NULL, NULL) EXCEPT !.unused = NULL])
          /\ Issued(NULL, "unuse")
  /\ UNCHANGED <<tvars, dvars, hvars, avars, vvars, svars, bvars, pvars>>

\* Clone for Element: Element::from(self.he).
ElementClone(i, ok) ==
  /\ Len(elems) < MaxElems
  /\ elems[i].unused = "-"
  /\ ok \in UseAnswers(elems[i].he)
  /\ elems' = Append(elems,
       Wrapper("clone", elems[i].he, use_or(elems[i].he, ok)))
  /\ Issued(elems[i].he, IF ok THEN "use" ELSE "useFailed")
  /\ UNCHANGED <<tvars, dvars, hvars, avars, vvars, svars, bvars, pvars>>

\* Element::destroy on wrapper i; ok is the answer of SciterDeleteElement.
ElementDestroy(i, ok) ==
  /\ elems[i].unused = "-" /\ ~elems[i].destroyed
  /\ elems' = [elems EXCEPT ![i] = destroy(@, ok)]
  /\ Issued(elems[i].he, "delete")
  /\ UNCHANGED <<tvars, dvars, hvars, avars, vvars, svars, bvars, pvars>>

\* Drop for Element: Sciter_UnuseElement(self.he), then self.he is null.
ElementDrop(i) ==
  /\ elems[i].unused = "-"
  /\ elems' = [elems EXCEPT ![i].unused = elems[i].he, ![i].he = NULL]
  /\ Issued(elems[i].he, "unuse")
  /\ UNCHANGED <<tvars, dvars, hvars, avars, vvars, svars, bvars, pvars>>

EInit ==
  /\ elems = <<>>
  /\ engine = [h \in ElemHandles \cup {NULL} |->
                 [c \in {"use", "useFailed", "given", "unuse", "delete"} |-> 0]]

ENext ==
  \/ \E he \in {DocHandle, NULL}, ok \in BOOLEAN : ElementFrom(he, ok)
  \/ \E ok \in BOOLEAN : ElementCreate(ok)
  \/ \E i \in 1..Len(elems), ok \in BOOLEAN : ElementClone(i, ok)
  \/ \E i \in 1..Len(elems), ok \in BOOLEAN : ElementDestroy(i, ok)
  \/ \E i \in 1..Len(elems) : ElementDrop(i)

-----------------------------------------------------------------------------
(* graphics.rs: Image::paint *)

\* GRAPHIN_RESULT.
GRAPHIN_PANIC == -1
GRAPHIN_OK == 0
GRAPHIN_BAD_PARAM == 1
GRAPHIN_FAILURE == 2
GRAPHIN_NOTSUPPORTED == 3

GraphinCodes ==
  {GRAPHIN_PANIC, GRAPHIN_OK, GRAPHIN_BAD_PARAM, GRAPHIN_FAILURE,
   GRAPHIN_NOTSUPPORTED}

\* Result<()>: Ok(()) or Err(code).
Ok == <<"Ok">>
Err(code) == <<"Err", code>>
PainterResults == {Ok} \cup {Err(c) : c \in GraphinCodes \ {GRAPHIN_OK}}

\* The width and height the engine hands to the paint callback.
Dimensions == {<<100, 100>>, <<1, 1>>, <<640, 480>>}

\* ok_or!((), ok).
ok_or(code) == IF code = GRAPHIN_OK THEN Ok ELSE Err(code)

\* Mutant: the result of the painter is dropped.
and_left(a, b) == a

\* Result::and: b when a is Ok, otherwise the error of a.
and(a, b) == IF a = Ok THEN b ELSE a

\* on_paint: the callback the engine invokes; it wraps hgfx with one
\* gAddRef, runs the painter and stores what the painter returned. The
\* wrapper is dropped at the end of the block, one gRelease.
on_paint(hgfx, painter) ==
  IF hgfx = NULL THEN [panic |-> TRUE, result |-> Ok, gAddRef |-> 0,
                       gRelease |-> 0]
  ELSE [panic |-> FALSE, result |-> painter, gAddRef |-> 1, gRelease |-> 1]

\* Image::paint: the payload starts with result Ok(()); imagePaint answers
\* code after calling on_paint (called) or without calling it; the outcome is
\* ok.and(param.result).
paint(code, called, hgfx, painter) ==
  LET cb == IF called THEN on_paint(hgfx, painter)
            ELSE [panic |-> FALSE, result |-> Ok, gAddRef |-> 0,
                  gRelease |-> 0]
  IN  [panic |-> cb.panic, gAddRef |-> cb.gAddRef, gRelease |-> cb.gRelease,
       result |-> IF cb.panic THEN <<"panic">>
                  ELSE and(ok_or(code), cb.result)]

Paint(code, called, hgfx, painter, dim) ==
  /\ painted' = [code |-> code, called |-> called, hgfx |-> hgfx,
                 painter |-> painter,
                 seen |-> IF called /\ hgfx # NULL THEN <<dim>> ELSE <<>>,
                 out |-> paint(code, called, hgfx, painter)]
  /\ UNCHANGED <<tvars, dvars, hvars, avars, vvars, svars, bvars, evars>>

PInit ==
  painted = [code |-> GRAPHIN_OK, called |-> FALSE, hgfx |-> "gfx",
             painter |-> Ok, seen |-> <<>>,
             out |-> [panic |-> FALSE, gAddRef |-> 0, gRelease |-> 0,
                      result |-> <<"-">>]]

PNext ==
  \E code \in GraphinCodes, called \in BOOLEAN, hgfx \in {"gfx", NULL},
     painter \in PainterResults, dim \in Dimensions :
    Paint(code, called, hgfx, painter, dim)

-----------------------------------------------------------------------------
(* window.rs: the window builder *)

\* The arguments of with_pos, with_size and with_rect the application uses;
\* none of the sums below leaves the range of an i32.
Positions == {<<0, 0>>, <<10, 20>>, <<-5, 7>>}
Sizes == {<<800, 600>>, <<300, 200>>}
Rects == {<<1, 2, 30, 40>>}

\* RECT::size: the extent of the rectangle.
size(rect) == [cx |-> rect.right - rect.left, cy |-> rect.bottom - rect.top]

\* Builder::with_size.
with_size(rect, sz) ==
  [rect EXCEPT !.right = rect.left + sz[1], !.bottom = rect.top + sz[2]]

\* Builder::with_pos.
with_pos(rect, position) ==
  [left |-> position[1], top |-> position[2],
   right |-> position[1] + size(rect).cx,
   bottom |-> position[2] + size(rect).cy]

\* Builder::with_rect.
with_rect(rect, r) ==
  [left |-> r[1], top |-> r[2], right |-> r[3], bottom |-> r[4]]

\* Builder::create: the tuple it hands to Window::create as its rect.
create(rect) == <<rect.left, rect.top, rect.right, rect.bottom>>

\* The builder calls of the application; pos, size and whole remember the
\* argument of the last with_pos, with_size and with_rect.
WithSize(sz) ==
  /\ builder.created = <<>> /\ builder.steps < MaxSteps
  /\ builder' = [builder EXCEPT !.rect = with_size(@, sz), !.size = <<sz>>,
                                !.steps = @ + 1]
  /\ UNCHANGED <<tvars, dvars, hvars, avars, vvars, svars, pvars, evars>>

WithPos(position) ==
  /\ builder.created = <<>> /\ builder.steps < MaxSteps
  /\ builder' = [builder EXCEPT !.rect = with_pos(@, position),
                                !.pos = <<position>>, !.steps = @ + 1]
  /\ UNCHANGED <<tvars, dvars, hvars, avars, vvars, svars, pvars, evars>>

WithRect(r) ==
  /\ builder.created = <<>> /\ builder.steps < MaxSteps
  /\ builder' = [builder EXCEPT !.rect = with_rect(@, r), !.whole = <<r>>,
                                !.steps = @ + 1]
  /\ UNCHANGED <<tvars, dvars, hvars, avars, vvars, svars, pvars, evars>>

Create ==
  /\ builder.created = <<>>
  /\ builder' = [builder EXCEPT !.created = <<create(builder.rect)>>]
  /\ UNCHANGED <<tvars, dvars, hvars, avars, vvars, svars, pvars, evars>>

\* Builder::default(): the zero rectangle.
BInit ==
  builder = [rect |-> [left |-> 0, top |-> 0, right |-> 0, bottom |-> 0],
             pos |-> <<>>, size |-> <<>>, whole |-> <<>>, steps |-> 0,
             created |-> <<>>]

BNext ==
  \/ \E sz \in Sizes : WithSize(sz)
  \/ \E position \in Positions : WithPos(position)
  \/ \E r \in Rects : WithRect(r)
  \/ Create

-----------------------------------------------------------------------------
(* examples/video.rs: the streaming handler VideoGen *)

Threads == DOMAIN tpc

\* Mutant: the loop does not look at what is_alive reports.
PollAlive_ignored == TRUE

\* The loop condition, cppcall!(video_destination::is_alive(site)).
PollAlive == alive

\* VideoGen::on_event, VIDEO_BIND_RQ in the bubbling phase, reason
\* VideoBind(ptr). A null ptr only consumes the event. Otherwise the site is
\* attached, the fragmented interface queried (found: adopted and handed to
\* a new worker thread, whose JoinHandle replaces the one self.thread held),
\* and the site wrapper dropped at the end of the scope.
VideoBind(ptrNull, found) ==
  /\ detachPc = "idle"
  /\ binds < MaxBinds
  /\ binds' = binds + 1
  /\ IF ptrNull
     THEN UNCHANGED <<vthread, tpc, frames, addRefs, releases, wrappers>>
     ELSE /\ releases' = [releases EXCEPT !["site"] = @ + 1]
          /\ IF found
             THEN /\ addRefs' = [addRefs EXCEPT !["frag"] = @ + 1]
                  /\ wrappers' = [wrappers EXCEPT !["frag"] = @ + 1]
                  /\ tpc' = Append(tpc, "started")
                  /\ frames' = Append(frames, 0)
                  /\ vthread' = Len(tpc) + 1
             ELSE UNCHANGED <<vthread, tpc, frames, addRefs, wrappers>>
  /\ UNCHANGED <<alive, detachPc, joinTid, ops, assetPanic, tvars, dvars,
                 svars, hvars, bvars, pvars, evars>>

\* The destination stops being alive (its element is gone); it stays so.
EngineKill ==
  /\ alive
  /\ alive' = FALSE
  /\ UNCHANGED <<vthread, tpc, frames, detachPc, joinTid, binds>>
  /\ UNCHANGED <<avars, tvars, dvars, svars, hvars, bvars, pvars, evars>>

\* generation_thread up to its loop: is_alive (printed only), start_streaming.
WorkerStart(t) ==
  /\ tpc[t] = "started"
  /\ tpc' = [tpc EXCEPT ![t] = "poll"]
  /\ UNCHANGED <<vthread, frames, alive, detachPc, joinTid, binds>>
  /\ UNCHANGED <<avars, tvars, dvars, svars, hvars, bvars, pvars, evars>>

\* One evaluation of the loop condition: into the body when the poll
\* reports alive (the model renders at most MaxFrames frames), else out.
WorkerPoll(t) ==
  /\ tpc[t] = "poll"
  /\ IF PollAlive
     THEN /\ frames[t] < MaxFrames
          /\ tpc' = [tpc EXCEPT ![t] = "render"]
     ELSE tpc' = [tpc EXCEPT ![t] = "exit"]
  /\ UNCHANGED <<vthread, frames, alive, detachPc, joinTid, binds>>
  /\ UNCHANGED <<avars, tvars, dvars, svars, hvars, bvars, pvars, evars>>

\* The loop body: render_frame_part, then the sleep of 1000 / 25 ms.
WorkerRender(t) ==
  /\ tpc[t] = "render"
  /\ frames' = [frames EXCEPT ![t] = @ + 1]
  /\ tpc' = [tpc EXCEPT ![t] = "poll"]
  /\ UNCHANGED <<vthread, alive, detachPc, joinTid, binds>>
  /\ UNCHANGED <<avars, tvars, dvars, svars, hvars, bvars, pvars, evars>>

\* The end of generation_thread: site goes out of scope (one release).
WorkerExit(t) ==
  /\ tpc[t] = "exit"
  /\ tpc' = [tpc EXCEPT ![t] = "done"]
  /\ releases' = [releases EXCEPT !["frag"] = @ + 1]
  /\ wrappers' = [wrappers EXCEPT !["frag"] = @ - 1]
  /\ UNCHANGED <<vthread, frames, alive, detachPc, joinTid, binds>>
  /\ UNCHANGED <<addRefs, ops, assetPanic, tvars, dvars, svars, hvars, bvars,
                 pvars, evars>>

WorkerStep(t) ==
  WorkerStart(t) \/ WorkerPoll(t) \/ WorkerRender(t) \/ WorkerExit(t)

\* VideoGen::detached: self.thread.take(); without a handle it returns,
\* with one it blocks in h.join().
DetachBegin ==
  /\ detachPc = "idle"
  /\ vthread' = 0
  /\ joinTid' = vthread
  /\ detachPc' = IF vthread = 0 THEN "returned" ELSE "joining"
  /\ UNCHANGED <<tpc, frames, alive, binds, avars, tvars, dvars, svars,
                 hvars, bvars, pvars, evars>>

\* h.join() returns once the joined thread has finished.
JoinReturn ==
  /\ detachPc = "joining"
  /\ tpc[joinTid] = "done"
  /\ detachPc' = "returned"
  /\ UNCHANGED <<vthread, tpc, frames, alive, joinTid, binds>>
  /\ UNCHANGED <<avars, tvars, dvars, svars, hvars, bvars, pvars, evars>>

VInit ==
  /\ vthread = 0
  /\ tpc = <<>>
  /\ frames = <<>>
  /\ alive = TRUE
  /\ detachPc = "idle"
  /\ joinTid = 0
  /\ binds = 0

VNext ==
  \/ \E ptrNull \in BOOLEAN, found \in BOOLEAN : VideoBind(ptrNull, found)
  \/ EngineKill
  \/ \E t \in Threads : WorkerStart(t)
  \/ \E t \in Threads : WorkerPoll(t)
  \/ \E t \in Threads : WorkerRender(t)
  \/ \E t \in Threads : WorkerExit(t)
  \/ DetachBegin
  \/ JoinReturn

-----------------------------------------------------------------------------
(* Properties of the trampolines *)

NotesOf(h) == {n \in 1..Len(notes) : notes[n].h = h}

AttachNotes(h) ==
  {n \in NotesOf(h) : notes[n].evtg = HANDLE_INITIALIZATION
                      /\ notes[n].init = BEHAVIOR_ATTACH}

DetachNotes(h) == {n \in NotesOf(h) : is_detach_event(notes[n])}

\* The calls of method m made on handler h, as <<notification, position>>.
CallsOf(h, m) ==
  {<<n, k>> \in NotesOf(h) \X (1..3) : k <= Len(calls[n]) /\ calls[n][k].m = m}

Methods(cs) == [k \in 1..Len(cs) |-> cs[k].m]

IsPrefix(s, t) == Len(s) <= Len(t) /\ \A k \in 1..Len(s) : s[k] = t[k]

\* C1: for every attachment shape, one attach notification followed by one
\* detach notification gives exactly one attached call, exactly one detached
\* call and exactly one deallocation of the box, the detached call having
\* returned before the box is dropped.
C1_DetachExactlyOnce ==
  \A h \in Handlers : \A na \in AttachNotes(h), nd \in DetachNotes(h) :
    (/\ Cardinality(AttachNotes(h)) = 1
     /\ Cardinality(DetachNotes(h)) = 1
     /\ na < nd
     /\ rets[nd] # "pending")
    => /\ CallsOf(h, "attached") = {<<na, 1>>}
       /\ CallsOf(h, "detached") = {<<nd, 1>>}
       /\ CallsOf(h, "drop") = {<<nd, 2>>}
       /\ calls[nd][1].ret = "unit"
       /\ dropCount[h] = 1
       /\ box[h].st = "freed"
       /\ rets[nd] = "TRUE"

C1_Witness ==
  \E h \in Handlers :
    /\ box[h].shape = "window"
    /\ Len(notes) = 2
    /\ AttachNotes(h) = {1}
    /\ DetachNotes(h) = {2}
    /\ rets = <<"TRUE", "TRUE">>
    /\ dropCount[h] = 1

\* C2: no method of a handler is invoked or still executing once the
\* handler's detach notification has been processed and its box dropped.
C2_NoUseAfterDetach ==
  \A i \in 1..Len(stack) : box[notes[stack[i]].h].st # "freed"

EventCodes == {BUTTON_CLICK, DOCUMENT_COMPLETE, DOCUMENT_CLOSE}

\* C4: a behavior event with code X in phase BUBBLING causes exactly one
\* on_event call, with code X, phase BUBBLING and the payload's source and
\* target, and the trampoline returns what on_event returned.
C4_RoundTrip ==
  \A n \in 1..Len(notes) : \A X \in EventCodes :
    (notes[n].evtg = HANDLE_BEHAVIOR_EVENT /\ notes[n].cmd = X + BUBBLING)
    => /\ Len(calls[n]) = 1
       /\ calls[n][1].m = "on_event"
       /\ calls[n][1].code = X
       /\ calls[n][1].phase = BUBBLING
       /\ calls[n][1].root = notes[n].he
       /\ calls[n][1].source = notes[n].source
       /\ calls[n][1].target = notes[n].target
       /\ rets[n] = calls[n][1].ret

C4_Witness ==
  \E n \in 1..Len(notes) :
    /\ notes[n].evtg = HANDLE_BEHAVIOR_EVENT
    /\ notes[n].cmd = BUTTON_CLICK + BUBBLING
    /\ box[notes[n].h].shape = "behavior"
    /\ rets[n] = "TRUE"
    /\ \E k \in 1..Len(notes) :
         /\ notes[k].cmd = BUTTON_CLICK + BUBBLING
         /\ notes[k].evtg = HANDLE_BEHAVIOR_EVENT
         /\ rets[k] = "FALSE"

\* The calls a document-lifecycle notification must make, by code and phase.
ExpectedDocumentCalls(code, phase) ==
  IF phase = SINKING /\ code = DOCUMENT_COMPLETE
  THEN <<"document_complete", "on_event">>
  ELSE IF phase = SINKING /\ code = DOCUMENT_CLOSE
  THEN <<"document_close", "on_event">>
  ELSE <<"on_event">>

\* C5: DOCUMENT_COMPLETE (DOCUMENT_CLOSE) in phase SINKING calls
\* document_complete (document_close) once and then on_event once; in any
\* other phase only on_event is called; the handled flag is on_event's result.
C5_SinkingDocumentHooks ==
  \A n \in 1..Len(notes) :
    \A code \in {DOCUMENT_COMPLETE, DOCUMENT_CLOSE} :
      \A phase \in {BUBBLING, SINKING, SINKING + HANDLED} :
        (notes[n].evtg = HANDLE_BEHAVIOR_EVENT /\ notes[n].cmd = code + phase)
        => LET want == ExpectedDocumentCalls(code, phase)
               cs == calls[n]
           IN  /\ IsPrefix(Methods(cs), want)
               /\ \A k \in 1..Len(cs) :
                    /\ cs[k].root = notes[n].he
                    /\ cs[k].target = notes[n].target
               /\ rets[n] # "pending"
                    => /\ Methods(cs) = want
                       /\ rets[n] = Last(cs).ret

C5_Witness ==
  \E n \in 1..Len(notes) :
    /\ notes[n].evtg = HANDLE_BEHAVIOR_EVENT
    /\ notes[n].cmd = DOCUMENT_COMPLETE + SINKING
    /\ Methods(calls[n]) = <<"document_complete", "on_event">>
    /\ rets[n] = "TRUE"
    /\ \E k \in 1..Len(notes) :
         /\ notes[k].evtg = HANDLE_BEHAVIOR_EVENT
         /\ notes[k].cmd = DOCUMENT_CLOSE + SINKING
         /\ Methods(calls[k]) = <<"document_close", "on_event">>
         /\ rets[k] = "FALSE"

\* C11: every handler boxed by Element::attach_handler is reclaimed and
\* destroyed exactly once: by its detach notification when the engine took
\* it, and before attach_handler returns Err when the engine refused it.
C11_ReclaimedOnEveryPath ==
  \A h \in AllHandlers : box[h].shape = "element" =>
    /\ dropCount[h] <= 1
    /\ box[h].st = "rejected" => dropCount[h] = 1
    /\ (\E n \in DetachNotes(h) : rets[n] = "TRUE") => dropCount[h] = 1

\* The step runs a part of a trampoline invocation whose tag is handler a.
Acting(a) ==
  \/ Len(notes') > Len(notes) /\ notes'[Len(notes')].h = a
  \/ /\ Len(notes') = Len(notes)
     /\ calls' # calls
     /\ stack # <<>>
     /\ notes[Last(stack)].h = a

\* The step calls no method of handler b and leaves its allocation alone.
Untouched(b) ==
  /\ box'[b] = box[b]
  /\ dropCount'[b] = dropCount[b]
  /\ \A n \in NotesOf(b) : calls'[n] = calls[n] /\ rets'[n] = rets[n]

\* C13: a notification delivered with handler A's context pointer invokes no
\* method of another attached handler B and does not deallocate B; B is
\* deallocated by its own detach notification only, so after A's detach B is
\* still allocated and still receives its notifications.
C13_NoInterference ==
  /\ [][\A a, b \in AllHandlers : (a # b /\ Acting(a)) => Untouched(b)]_vars
  /\ [](\A b \in AllHandlers :
          /\ dropCount[b] = Cardinality(CallsOf(b, "drop"))
          /\ box[b].st = "freed" <=> CallsOf(b, "drop") # {})

C13_Witness ==
  \E na, nb \in 1..Len(notes) :
    /\ na < nb
    /\ notes[na].h = "h1" /\ is_detach_event(notes[na]) /\ rets[na] = "TRUE"
    /\ box["h1"].st = "freed"
    /\ notes[nb].h = "h2" /\ notes[nb].evtg = HANDLE_BEHAVIOR_EVENT
    /\ Methods(calls[nb]) = <<"document_complete", "on_event">>
    /\ rets[nb] = "TRUE"
    /\ box["h2"].st = "live" /\ dropCount["h2"] = 0

\* A handler method is called for invocation n in this step.
CallMade(n) ==
  /\ IF n <= Len(calls) THEN Len(calls'[n]) > Len(calls[n])
     ELSE Len(calls'[n]) > 0
  /\ calls'[n][Len(calls'[n])].m # "drop"

\* C14: the handler-method invocations follow the engine's notification
\* order: a handler method is only ever called for the newest notification
\* that has not returned, every notification delivered after it having
\* returned (re-entrant ones included); an invocation that is not on the
\* stack has returned, and one that returned a result made all the calls of
\* its notification first, so none is held back, batched or reordered.
C14_DeliveryOrder ==
  /\ [][\A n \in 1..Len(notes') :
          CallMade(n) => /\ n = Last(stack')
                         /\ \A m \in (n + 1)..Len(notes') : rets'[m] # "pending"
                         /\ \A m \in 1..(n - 1) :
                              rets'[m] = "pending"
                              => \E k \in 1..Len(stack') : stack'[k] = m]_vars
  /\ [](\A k \in 1..(Len(stack) - 1) : stack[k] < stack[k + 1])
  /\ [](\A n \in 1..Len(notes) :
          /\ (\A k \in 1..Len(stack) : stack[k] # n) => rets[n] # "pending"
          /\ rets[n] \in {"TRUE", "FALSE"}
               => Methods(calls[n])
                    = TrampolineCalls(box[notes[n].h].shape, notes[n]))

C14_Witness ==
  /\ Len(notes) = 3
  /\ stack = <<1, 3>>
  /\ notes[1].h = notes[2].h /\ notes[2].h = notes[3].h
  /\ Methods(calls[1]) = <<"document_complete">>
  /\ rets[2] = "TRUE"
  /\ Methods(calls[2]) = <<"document_complete", "on_event">>
  /\ Methods(calls[3]) = <<"document_complete">>

\* Bit i (0 to 31) of the 32-bit pattern of x.
Bit(x, i) == IF i = 31 THEN (IF x < 0 THEN 1 ELSE 0) ELSE (x \div (2 ^ i)) % 2

\* The number whose 32-bit pattern has bit i equal to b[i].
FromBits(b) ==
  LET RECURSIVE Low(_)
      Low(i) == IF i > 30 THEN 0 ELSE b[i] * (2 ^ i) + Low(i + 1)
  IN  IF b[31] = 1 THEN (Low(0) - 2 ^ 30) - 2 ^ 30 ELSE Low(0)

BitAnd(x, y) == FromBits([i \in 0..31 |-> Bit(x, i) * Bit(y, i)])

BitOr(x, y) ==
  FromBits([i \in 0..31 |-> IF Bit(x, i) + Bit(y, i) > 0 THEN 1 ELSE 0])

\* C15: for every 32-bit cmd the decoded code is cmd AND 0x0000_0FFF and the
\* decoded phase is cmd AND 0xFFFF_F000; the two share no bit and their
\* bitwise OR is cmd again.
C15_DecodeMasks ==
  decoded.cmd # -1 \/ decoded.code # -1 =>
    /\ decoded.code = BitAnd(decoded.cmd, 4095)
    /\ decoded.phase = BitAnd(decoded.cmd, -4096)
    /\ decoded.code \in 0..4095
    /\ BitAnd(decoded.code, decoded.phase) = 0
    /\ BitOr(decoded.code, decoded.phase) = decoded.cmd

C15_Witness ==
  /\ decoded.cmd = (-524288) * CodeMask + 212
  /\ decoded.code = VIDEO_BIND_RQ
  /\ decoded.phase = (-524288) * CodeMask

\* The variant the claim gives each event code.
ExpectedVariant(code) ==
  IF code \in {EDIT_VALUE_CHANGED, EDIT_VALUE_CHANGING} THEN "EditChanged"
  ELSE IF code = VIDEO_BIND_RQ THEN "VideoBind"
  ELSE "General"

\* C16: the EventReason variant handed to on_event is a function of the
\* decoded event code alone, whatever the phase and the reason field:
\* EditChanged for the two edit codes, VideoBind carrying the reason field
\* for VIDEO_BIND_RQ, General for every other code.
C16_ReasonByCode ==
  \A n \in 1..Len(notes) : \A k \in 1..Len(calls[n]) :
    calls[n][k].m = "on_event" =>
      calls[n][k].arg = <<ExpectedVariant(BitAnd(notes[n].cmd, 4095)),
                          notes[n].reason>>

C16_Witness ==
  \E n, k \in 1..Len(notes) :
    /\ notes[n].cmd = EDIT_VALUE_CHANGED + SINKING
    /\ notes[n].reason = 1
    /\ Last(calls[n]).m = "on_event"
    /\ Last(calls[n]).arg = <<"EditChanged", 1>>
    /\ notes[k].cmd = VIDEO_BIND_RQ + BUBBLING
    /\ notes[k].reason = 0
    /\ Last(calls[k]).m = "on_event"
    /\ Last(calls[k]).arg = <<"VideoBind", 0>>

\* C17: a SUBSCRIPTIONS_REQUEST notification calls get_subscription exactly
\* once; Some(mask) is written into the payload slot and reported as handled,
\* None leaves the slot as it was and is reported as not handled.
C17_SubscriptionRequest ==
  \A n \in 1..Len(notes) :
    (notes[n].evtg = SUBSCRIPTIONS_REQUEST /\ notes[n].params # NULL)
    => /\ Methods(calls[n]) = <<"get_subscription">>
       /\ rets[n] = "pending" => payload[n].slot = notes[n].slot
       /\ rets[n] # "pending" =>
            IF calls[n][1].ret = "Some"
            THEN payload[n].slot = "needed" /\ rets[n] = "TRUE"
            ELSE /\ calls[n][1].ret = "None"
                 /\ payload[n].slot = notes[n].slot
                 /\ rets[n] = "FALSE"

C17_Witness ==
  \E n, k \in 1..Len(notes) :
    /\ notes[n].evtg = SUBSCRIPTIONS_REQUEST /\ notes[n].params # NULL
    /\ calls[n][1].ret = "Some" /\ payload[n].slot = "needed"
    /\ rets[n] = "TRUE"
    /\ notes[k].evtg = SUBSCRIPTIONS_REQUEST /\ notes[k].params # NULL
    /\ calls[k][1].ret = "None" /\ payload[k].slot = "all"
    /\ rets[k] = "FALSE"

\* C18: a HANDLE_SCRIPTING_METHOD_CALL notification calls on_script_call
\* once with the payload's method name and all its arguments unpacked in
\* order; the value of Some(value) is packed into the result slot and the
\* result is handled; on None the slot is not written and the result is false.
C18_ScriptCall ==
  \A n \in 1..Len(notes) :
    (notes[n].evtg = HANDLE_SCRIPTING_METHOD_CALL /\ notes[n].params # NULL)
    => /\ Methods(calls[n]) = <<"on_script_call">>
       /\ calls[n][1].root = notes[n].he
       /\ calls[n][1].arg[1] = notes[n].name.wide
       /\ Len(calls[n][1].arg[2]) = Len(notes[n].argv)
       /\ \A i \in 1..Len(notes[n].argv) :
            calls[n][1].arg[2][i] = notes[n].argv[i].v
       /\ rets[n] = "pending" => payload[n].slot = notes[n].slot
       /\ rets[n] # "pending" =>
            IF calls[n][1].ret = "Some"
            THEN payload[n].slot = "v" /\ rets[n] = "TRUE"
            ELSE /\ calls[n][1].ret = "None"
                 /\ payload[n].slot = notes[n].slot
                 /\ rets[n] = "FALSE"

C18_Witness ==
  \E n, k \in 1..Len(notes) :
    /\ notes[n].evtg = HANDLE_SCRIPTING_METHOD_CALL /\ notes[n].params # NULL
    /\ calls[n][1].arg = <<"f", <<1, 2>>>>
    /\ calls[n][1].ret = "Some" /\ payload[n].slot = "v" /\ rets[n] = "TRUE"
    /\ notes[k].evtg = HANDLE_SCRIPTING_METHOD_CALL /\ notes[k].params # NULL
    /\ calls[k][1].ret = "None" /\ payload[k].slot = "undef"
    /\ rets[k] = "FALSE"

\* C19: for each of the five groups with an arm and each trampoline, a null
\* payload pointer ends in an assertion failure before any handler method
\* is called and before the payload is read; the trampoline returns no
\* result for it.
C19_NullPayloadAsserts ==
  \A n \in 1..Len(notes) :
    (notes[n].params = NULL /\ notes[n].evtg \in KnownGroups)
    => /\ rets[n] = "panic"
       /\ calls[n] = <<>>
       /\ ~payload[n].read
       /\ payload[n].slot = notes[n].slot

C19_Witness ==
  /\ Len(notes) = 2
  /\ rets[1] \in {"TRUE", "FALSE"}
  /\ notes[2].evtg = HANDLE_TIMER /\ notes[2].params = NULL
  /\ box[notes[2].h].shape = "window"
  /\ rets[2] = "panic"

\* C20: a notification of a group other than the five with an arm calls no
\* handler method, does not read the payload and returns false, for every
\* trampoline shape.
C20_OtherGroupsUnhandled ==
  \A n \in 1..Len(notes) :
    notes[n].evtg \notin KnownGroups
    => /\ calls[n] = <<>>
       /\ rets[n] = "FALSE"
       /\ ~payload[n].read
       /\ payload[n].slot = notes[n].slot

C20_Witness ==
  \E n, k \in 1..Len(notes) :
    /\ notes[n].evtg = FUTURE_GROUP /\ notes[n].params = NULL
    /\ rets[n] = "FALSE"
    /\ notes[k].evtg = HANDLE_MOUSE /\ notes[k].params # NULL
    /\ rets[k] = "FALSE"
    /\ box[notes[n].h].shape = "behavior"

\* C29: for a window-level handler an attach notification calls attached
\* exactly once, with the document root resolved for the notification (null
\* when there is none), and nothing else; a detach notification calls
\* detached once and reclaims the handler. Both are answered true by the
\* window trampoline itself, without going through process_events.
C29_WindowInitialization ==
  \A n \in 1..Len(notes) :
    (/\ box[notes[n].h].shape = "window"
     /\ notes[n].evtg = HANDLE_INITIALIZATION
     /\ notes[n].params # NULL)
    => /\ Len(calls[n]) >= 1
       /\ calls[n][1].root = notes[n].he
       /\ IF notes[n].init = BEHAVIOR_ATTACH
          THEN Methods(calls[n]) = <<"attached">>
          ELSE IsPrefix(Methods(calls[n]), <<"detached", "drop">>)
       /\ rets[n] \in {"pending", "TRUE"}
       /\ (rets[n] = "TRUE" /\ notes[n].init # BEHAVIOR_ATTACH)
            => Methods(calls[n]) = <<"detached", "drop">>

C29_Witness ==
  \E n, k \in 1..Len(notes) :
    /\ n < k
    /\ box[notes[n].h].shape = "window"
    /\ notes[n].evtg = HANDLE_INITIALIZATION
    /\ notes[n].init = BEHAVIOR_ATTACH /\ notes[n].he = NULL
    /\ Methods(calls[n]) = <<"attached">> /\ calls[n][1].root = NULL
    /\ calls[n][1].ret = "unit" /\ rets[n] = "TRUE"
    /\ notes[k].init = BEHAVIOR_ATTACH /\ notes[k].he = "e1"
    /\ calls[k][1].root = "e1" /\ rets[k] = "TRUE"

\* The handler methods that belong to a notification group.
GroupMethods(evtg) ==
  CASE evtg = SUBSCRIPTIONS_REQUEST -> {"get_subscription"}
    [] evtg = HANDLE_INITIALIZATION -> {"attached", "detached"}
    [] evtg = HANDLE_BEHAVIOR_EVENT ->
         {"on_event", "document_complete", "document_close"}
    [] evtg = HANDLE_SCRIPTING_METHOD_CALL -> {"on_script_call"}
    [] evtg = HANDLE_TIMER -> {"on_timer"}
    [] OTHER -> {}

\* C36: a notification invokes only handler methods of its own group, each
\* at most once: one method for a subscription request, an initialization,
\* a scripting call and a timer, on_event with at most one document hook,
\* and that only in the sinking phase, for a behavior event. on_timer gets
\* the timer id of the payload and its answer is the result.
C36_OwnGroupOnly ==
  \A n \in 1..Len(notes) :
    notes[n].params # NULL
    => LET made == {k \in 1..Len(calls[n]) : calls[n][k].m # "drop"}
       IN  /\ \A k \in made : calls[n][k].m \in GroupMethods(notes[n].evtg)
           /\ \A k, j \in made : calls[n][k].m = calls[n][j].m => k = j
           /\ notes[n].evtg # HANDLE_BEHAVIOR_EVENT => Cardinality(made) <= 1
           /\ notes[n].evtg = HANDLE_BEHAVIOR_EVENT =>
                /\ Cardinality(made) <= 2
                /\ \A k \in made :
                     calls[n][k].m # "on_event" => Bit(notes[n].cmd, 15) = 1
           /\ notes[n].evtg = HANDLE_TIMER =>
                /\ Methods(calls[n]) = <<"on_timer">>
                /\ calls[n][1].arg = <<notes[n].timerId>>
                /\ rets[n] \in {"pending", calls[n][1].ret}

C36_Witness ==
  \E n, k \in 1..Len(notes) :
    /\ notes[n].evtg = HANDLE_TIMER /\ notes[n].params # NULL
    /\ calls[n][1].arg = <<7>> /\ calls[n][1].ret = "TRUE"
    /\ rets[n] = "TRUE"
    /\ notes[k].evtg = HANDLE_BEHAVIOR_EVENT
    /\ Methods(calls[k]) = <<"document_close", "on_event">>
    /\ rets[k] = "FALSE"

\* C31: a handler made by the factory registered as "custom-button" and
\* attached through the registry lookup runs under the behavior trampoline,
\* which answers true to a BUTTON_CLICK in the bubbling phase and false to
\* the same notification in the sinking phase.
C31_ButtonClick ==
  \A n \in 1..Len(notes) :
    (/\ box[notes[n].h].shape = "behavior"
     /\ notes[n].evtg = HANDLE_BEHAVIOR_EVENT
     /\ DecodeCode(notes[n].cmd) = BUTTON_CLICK
     /\ rets[n] # "pending")
    => /\ \E l \in 1..Len(lookups) :
            /\ lookups[l].name = "custom-button"
            /\ lookups[l].proc = "_event_handler_behavior_proc"
            /\ lookups[l].tag = <<"BoxedHandler", "A">>
       /\ notes[n].cmd = BUTTON_CLICK + BUBBLING => rets[n] = "TRUE"
       /\ notes[n].cmd = BUTTON_CLICK + SINKING => rets[n] = "FALSE"

C31_Witness ==
  \E n, k \in 1..Len(notes) :
    /\ box[notes[n].h].shape = "behavior" /\ notes[k].h = notes[n].h
    /\ notes[n].cmd = BUTTON_CLICK + BUBBLING /\ rets[n] = "TRUE"
    /\ notes[k].cmd = BUTTON_CLICK + SINKING /\ rets[k] = "FALSE"
    /\ notes[n].evtg = HANDLE_BEHAVIOR_EVENT
    /\ notes[k].evtg = HANDLE_BEHAVIOR_EVENT
    /\ Methods(calls[n]) = <<"on_event">>
    /\ lookups[1].name = "custom-button" /\ lookups[1].re = 1

\* The same notification delivered with a non-null element handle.
WithElement(note) == [note EXCEPT !.he = "e1"]

\* C21: a notification of a group other than the subscription request that
\* arrives with a null element handle is processed as with an element: the
\* same handler methods are called in the same order, each with the null
\* handle as its root argument, and the result is computed from their
\* answers in the same way.
C21_NullElementProcessed ==
  \A n \in 1..Len(notes) :
    (notes[n].he = NULL /\ notes[n].evtg # SUBSCRIPTIONS_REQUEST
       /\ notes[n].params # NULL)
    => LET shape == box[notes[n].h].shape
           plan == TrampolineCalls(shape, WithElement(notes[n]))
       IN  /\ plan # <<>>
           /\ IsPrefix(Methods(calls[n]), plan)
           /\ calls[n] # <<>>
           /\ \A k \in 1..Len(calls[n]) :
                calls[n][k].m # "drop" => calls[n][k].root = NULL
           /\ rets[n] # "pending" =>
                /\ Methods(calls[n]) = plan
                /\ rets[n] =
                     TrampolineResult(shape, WithElement(notes[n]), calls[n])

C21_Witness ==
  \E n, k \in 1..Len(notes) :
    /\ notes[n].he = NULL /\ notes[n].evtg = HANDLE_BEHAVIOR_EVENT
    /\ Methods(calls[n]) = <<"document_close", "on_event">>
    /\ calls[n][2].root = NULL /\ calls[n][2].ret = "TRUE"
    /\ rets[n] = "TRUE"
    /\ notes[k].he = NULL /\ notes[k].evtg = HANDLE_TIMER
    /\ calls[k][1].root = NULL /\ rets[k] = "FALSE"
    /\ box[notes[n].h].shape = "window"

-----------------------------------------------------------------------------
(* Properties of the registry *)

\* C6: with a name registered twice, first with factory A and then with
\* factory B, a lookup of the name invokes A's factory exactly once, never
\* B's, and attaches the handler A produced.
C6_FirstRegisteredWins ==
  \A l \in 1..Len(lookups) : \A i, j \in 1..lookups[l].len :
    (/\ ~lookups[l].override
     /\ i < j
     /\ behaviors[lookups[l].host][i].name = lookups[l].name
     /\ behaviors[lookups[l].host][j].name = lookups[l].name
     /\ \A k \in 1..(i - 1) : behaviors[lookups[l].host][k].name # lookups[l].name)
    => /\ lookups[l].invoked = <<behaviors[lookups[l].host][i].factory>>
       /\ behaviors[lookups[l].host][j].factory # behaviors[lookups[l].host][i].factory
            => \A k \in 1..Len(lookups[l].invoked) :
                 lookups[l].invoked[k] # behaviors[lookups[l].host][j].factory
       /\ lookups[l].re # -1
            => /\ lookups[l].re = 1
               /\ lookups[l].proc = "_event_handler_behavior_proc"
               /\ lookups[l].tag = <<"BoxedHandler", behaviors[lookups[l].host][i].factory>>

C6_Witness ==
  \E l \in 1..Len(lookups) :
    /\ lookups[l].len >= 2
    /\ behaviors[lookups[l].host][1] = [name |-> "a", factory |-> "A"]
    /\ behaviors[lookups[l].host][2] = [name |-> "a", factory |-> "B"]
    /\ lookups[l].name = "a"
    /\ ~lookups[l].override
    /\ lookups[l].re = 1
    /\ lookups[l].tag = <<"BoxedHandler", "A">>

\* The entries of the list of its host that lookup l could scan.
Scanned(l) ==
  {i \in 1..lookups[l].len : behaviors[lookups[l].host][i].name = lookups[l].name}

\* C22: an SC_ATTACH_BEHAVIOR notification for a name with no entry in the
\* registry, which the host handler did not handle, is answered 0 at once:
\* no factory is invoked, nothing is boxed, elementProc and elementTag stay
\* as they were, and neither the registry nor the panic state changes.
C22_UnknownNameUnhandled ==
  [][\A w \in AllHosts, name \in BehaviorNames :
       (/\ Len(lookups') = Len(lookups) + 1
        /\ Last(lookups').host = w /\ Last(lookups').name = name
        /\ ~Last(lookups').override
        /\ \A i \in 1..Len(behaviors[w]) : behaviors[w][i].name # name)
       => /\ Last(lookups') =
               [host |-> w, via |-> cbPtr[w], name |-> name,
                len |-> Len(behaviors[w]),
                override |-> FALSE, invoked |-> <<>>, proc |-> "-",
                tag |-> <<"-", "-">>, re |-> 0]
          /\ UNCHANGED <<behaviors, regs, hstack, hostPanic>>]_vars

C22_Witness ==
  \E l \in 1..Len(lookups) :
    /\ lookups[l].name = "b" /\ ~lookups[l].override
    /\ lookups[l].len = 2 /\ Scanned(l) = {}
    /\ lookups[l].re = 0 /\ lookups[l].invoked = <<>>
    /\ hstack # <<>> /\ ~hostPanic

\* C23: the registry is consulted only when HostHandler::on_attach_behavior
\* returned false. When it returned true no factory is invoked, elementProc
\* and elementTag stay as the host handler set them, and the notification is
\* answered as handled.
C23_HostHandlerFirst ==
  \A l \in 1..Len(lookups) :
    /\ lookups[l].invoked # <<>> => ~lookups[l].override
    /\ lookups[l].override
         => /\ lookups[l].invoked = <<>>
            /\ lookups[l].proc = "host"
            /\ lookups[l].tag = <<"host", "-">>
            /\ lookups[l].re = 1

C23_Witness ==
  \E l, k \in 1..Len(lookups) :
    /\ lookups[l].override /\ Scanned(l) # {}
    /\ lookups[l].re = 1 /\ lookups[l].proc = "host"
    /\ ~lookups[k].override /\ lookups[k].name = lookups[l].name
    /\ lookups[k].tag[1] = "BoxedHandler"

\* C24: the registry is append-only. Every step leaves each list as it was
\* or appends one pair to it, so no entry is removed, reordered or modified,
\* and the list holds one entry for each register_behavior call that
\* returned, a repeated name included.
C24_AppendOnly ==
  [][\A w \in AllHosts :
       /\ IsPrefix(behaviors[w], behaviors'[w])
       /\ Len(behaviors'[w]) = regs'[w]
       /\ regs'[w] \in {regs[w], regs[w] + 1}]_vars

C24_Witness ==
  /\ Len(behaviors["w1"]) = 3
  /\ behaviors["w1"][1].name = "a" /\ behaviors["w1"][3].name = "a"
  /\ behaviors["w1"][2].name = "b"
  /\ \E l \in 1..Len(lookups) : lookups[l].re = 1 /\ lookups[l].len = 2

\* C25: each Host owns its registry. A step changes the list of at most one
\* host, each list holds exactly the pairs registered on its host, and a
\* lookup sent to a host invokes the factory of the first entry with the
\* name in that host's list, or none when that list has no such entry.
C25_IndependentRegistries ==
  [][/\ \A w, x \in AllHosts :
          (w # x /\ behaviors'[w] # behaviors[w])
          => behaviors'[x] = behaviors[x]
     /\ \A w \in AllHosts : Len(behaviors'[w]) = regs'[w]
     /\ \A l \in 1..Len(lookups') :
          LET list == behaviors'[lookups'[l].host]
              hits == {i \in 1..lookups'[l].len :
                         list[i].name = lookups'[l].name}
          IN  IF hits = {} THEN lookups'[l].invoked = <<>>
              ELSE \E i \in hits :
                     /\ \A j \in hits : i <= j
                     /\ lookups'[l].invoked = <<list[i].factory>>]_vars

C25_Witness ==
  \E l, k \in 1..Len(lookups) :
    /\ l < k
    /\ lookups[l].host = "w1" /\ lookups[l].name = "a"
    /\ lookups[l].tag = <<"BoxedHandler", "A">>
    /\ lookups[k].host = "w2" /\ lookups[k].name = "a"
    /\ lookups[k].len = 0 /\ lookups[k].invoked = <<>> /\ lookups[k].re = 0
    /\ behaviors["w1"] = <<[name |-> "a", factory |-> "A"]>>
    /\ behaviors["w2"] = <<[name |-> "a", factory |-> "B"]>>

\* C37: behaviors registered on a host stay resolvable when its callback is
\* replaced by setup_callback: whichever payload the engine passes, a lookup
\* that the host handler did not take over invokes the factory of the first
\* entry with that name in the one list of the host, entries registered
\* after the replacement included, and invokes nothing only if there is none.
C37_RegistrySurvivesReplacement ==
  \A l \in 1..Len(lookups) :
    ~lookups[l].override =>
      IF Scanned(l) = {} THEN lookups[l].invoked = <<>>
      ELSE \E i \in Scanned(l) :
             /\ \A j \in Scanned(l) : i <= j
             /\ lookups[l].invoked = <<behaviors[lookups[l].host][i].factory>>

C37_Witness ==
  \E l, k \in 1..Len(lookups) :
    /\ l < k
    /\ lookups[l].host = "w1" /\ lookups[k].host = "w1"
    /\ lookups[l].via = 1 /\ lookups[k].via > 2
    /\ lookups[l].name = "a" /\ lookups[l].len = 1 /\ lookups[l].re = 1
    /\ lookups[k].name = "a" /\ lookups[k].len = 2
    /\ behaviors["w1"][1].name = "a" /\ behaviors["w1"][2].name = "b"
    /\ lookups[k].tag = <<"BoxedHandler", behaviors["w1"][1].factory>>
    /\ payloads[1].st = "freed"

\* C38: while a host exists, so that the engine may call back, the context
\* pointer registered last for the debug output and the one registered for
\* the window of each existing host address a payload that was not dropped.
C38_ContextLive ==
  /\ (\E w \in AllHosts : hostSt[w] = "attached") => payloads[dbgPtr].st = "live"
  /\ \A w \in AllHosts :
       hostSt[w] = "attached" => payloads[cbPtr[w]].st = "live"

\* C7: a register_behavior call made while a lookup is in progress on the
\* same host (from inside the factory closure) completes without fault.
C7_ReentrantRegisterNoFault == ~hostPanic

-----------------------------------------------------------------------------
(* Properties of the handle wrappers *)

\* C3: over every sequence of attach, adopt, try_from and drop on an asset,
\* add_ref calls minus release calls equal adopt operations (the adopt of a
\* successful try_from included) minus wrappers dropped: attach issues no
\* add_ref, adopt exactly one, each drop exactly one release.
C3_AssetRefcountBalance ==
  \A p \in AssetPtrs :
    /\ addRefs[p] - releases[p] = ops[p]["adopt"] - ops[p]["drop"]
    /\ addRefs[p] = ops[p]["adopt"]
    /\ releases[p] = ops[p]["drop"]
    /\ wrappers[p] = ops[p]["attach"] + ops[p]["adopt"] - ops[p]["drop"]

C3_Witness ==
  \E p \in AssetPtrs :
    /\ ops[p]["attach"] = 1
    /\ ops[p]["adopt"] = 2
    /\ ops[p]["drop"] = 1
    /\ addRefs[p] - releases[p] = 1

\* C10 as claimed: from_value wraps the unwrapped handle without an add-ref
\* call (the only add-refs are those of clone), and each drop releases once.
C10_FromValueAttaches ==
  \A h \in GfxHandles :
    /\ addRefs[h] = ops[h]["clone"]
    /\ releases[h] = ops[h]["drop"]

\* C10 as amended: each successful from_value issues exactly one add-ref on
\* the unwrapped handle, a failed one none, and each drop releases once.
C10_FromValueAddsRef ==
  \A h \in GfxHandles :
    /\ addRefs[h] = ops[h]["unwrap"] + ops[h]["clone"]
    /\ releases[h] = ops[h]["drop"]
    /\ wrappers[h] =
         ops[h]["create"] + ops[h]["unwrap"] + ops[h]["clone"] - ops[h]["drop"]

C10_Witness ==
  \E h \in GfxHandles :
    /\ ops[h]["unwrap"] = 1
    /\ ops[h]["clone"] = 0
    /\ ops[h]["drop"] = 1
    /\ addRefs[h] = 1
    /\ releases[h] = 1

\* C26: each clone of an Image, Path or Graphics wrapper issues one add-ref
\* on its handle and makes one more wrapper of the same handle. Over every
\* sequence of factory creation, clone and drop the releases equal the
\* wrappers dropped and never exceed the factory's reference plus the
\* add-refs issued.
C26_CloneAddsRef ==
  \A h \in GfxHandles :
    /\ addRefs[h] = ops[h]["unwrap"] + ops[h]["clone"]
    /\ wrappers[h] + ops[h]["drop"] =
         ops[h]["create"] + ops[h]["unwrap"] + ops[h]["clone"]
    /\ releases[h] = ops[h]["drop"]
    /\ ops[h]["create"] <= 1
    /\ releases[h] <= ops[h]["create"] + addRefs[h]

C26_Witness ==
  \E h \in GfxHandles :
    /\ ops[h]["create"] = 1 /\ ops[h]["unwrap"] = 0
    /\ ops[h]["clone"] = 1 /\ ops[h]["drop"] = 2
    /\ addRefs[h] = 1 /\ releases[h] = 2 /\ wrappers[h] = 0

\* C27: AssetPtr::try_from makes one interface query on the source. When the
\* interface is supported the pointer obtained gets one more wrapper and one
\* add_ref; when it is not, no wrapper is made and no add_ref is issued. In
\* both cases nothing is released, nothing panics and the source wrapper
\* stays.
C27_TryFrom ==
  [][\A p \in AssetPtrs :
       ops'[p]["query"] # ops[p]["query"]
       => /\ ops'[p]["query"] = ops[p]["query"] + 1
          /\ \A q \in AssetPtrs \ {p} : ops'[q]["query"] = ops[q]["query"]
          /\ releases' = releases
          /\ ~assetPanic'
          /\ wrappers'[p] >= wrappers[p] /\ wrappers[p] > 0
          /\ \/ /\ addRefs' = addRefs
                /\ wrappers' = wrappers
                /\ \A q \in Pointers : ops'[q]["adopt"] = ops[q]["adopt"]
             \/ \E out \in AssetPtrs :
                  /\ addRefs' = [addRefs EXCEPT ![out] = @ + 1]
                  /\ wrappers' = [wrappers EXCEPT ![out] = @ + 1]
                  /\ ops'[out]["adopt"] = ops[out]["adopt"] + 1]_vars

C27_Witness ==
  /\ ops["site"]["attach"] = 1 /\ ops["site"]["query"] = 2
  /\ ops["frag"]["adopt"] = 1
  /\ addRefs["frag"] = 1 /\ wrappers["frag"] = 1
  /\ addRefs["site"] = 0 /\ wrappers["site"] = 1
  /\ releases["site"] = 0 /\ releases["frag"] = 0

\* C28: AssetPtr::attach and AssetPtr::adopt called with a null pointer
\* panic on the assertion before any foreign call: no add_ref, no release,
\* no wrapper of the null pointer, and nothing runs after the panic.
C28_NullPointerAsserts ==
  /\ (ops[NULL]["attach"] + ops[NULL]["adopt"] > 0) <=> assetPanic
  /\ ops[NULL]["attach"] + ops[NULL]["adopt"] <= 1
  /\ addRefs[NULL] = 0 /\ releases[NULL] = 0 /\ wrappers[NULL] = 0

C28_Witness ==
  /\ ops[NULL]["adopt"] = 1 /\ assetPanic
  /\ ops["site"]["adopt"] = 1 /\ addRefs["site"] = 1
  /\ addRefs[NULL] = 0

-----------------------------------------------------------------------------
(* Properties of the selector queries *)

\* C30: a find_all that succeeds returns every element the engine's
\* enumeration offers, in order: k matching elements give k entries.
C30_FindAllReturnsAll ==
  (selected.op = "find_all" /\ selected.ok)
  => selected.result = <<"Ok", selected.matches>>

-----------------------------------------------------------------------------
(* Properties of the Element wrapper *)

\* The wrappers of a kind made for handle h.
MadeFor(kinds, h) ==
  {i \in 1..Len(elems) : elems[i].kind \in kinds /\ elems[i].src = h}

\* Every Use call was made by an Element::from or a clone on the handle it
\* was made for, and every Unuse call by a drop on the handle it held.
CallsAccounted ==
  \A h \in ElemHandles \cup {NULL} :
    /\ engine[h]["use"] + engine[h]["useFailed"] =
         Cardinality(MadeFor({"from", "clone"}, h))
    /\ engine[h]["unuse"] =
         Cardinality({i \in 1..Len(elems) : elems[i].unused = h})

\* The Unuse calls on a handle never exceed the references the wrappers
\* hold on it.
UnuseBounded ==
  \A h \in ElemHandles :
    engine[h]["unuse"] <= engine[h]["use"] + engine[h]["given"]

\* C32 as claimed: every clone holds the handle of its original, with one
\* Use call per clone and the Unuse calls bounded by the references held.
C32_CloneSameHandle ==
  /\ \A i \in 1..Len(elems) :
       elems[i].kind = "clone" => elems[i].he0 = elems[i].src
  /\ CallsAccounted
  /\ UnuseBounded

\* C32 as amended: a clone issues one Sciter_UseElement on the handle of its
\* original and holds that handle when the call succeeded, the null handle
\* when it failed; each drop issues one Sciter_UnuseElement on the handle the
\* wrapper holds, and the Unuse calls on a handle never exceed the
\* successful Use calls plus the references element creation handed over.
C32_CloneUsesHandle ==
  /\ \A i \in 1..Len(elems) :
       elems[i].kind \in {"from", "clone"}
       => elems[i].he0 \in {elems[i].src, NULL}
  /\ \A h \in ElemHandles :
       Cardinality({j \in MadeFor({"from", "clone"}, h) : elems[j].he0 = h})
         = engine[h]["use"]
  /\ CallsAccounted
  /\ UnuseBounded

C32_Witness ==
  \E i, j \in 1..Len(elems) :
    /\ elems[i].kind = "from" /\ elems[i].he0 = DocHandle
    /\ elems[j].kind = "clone" /\ elems[j].src = DocHandle
    /\ elems[j].he0 = DocHandle
    /\ elems[i].unused = DocHandle /\ elems[j].unused = DocHandle
    /\ engine[DocHandle]["use"] = 2 /\ engine[DocHandle]["unuse"] = 2

\* C35: after Element::destroy the wrapper holds the null handle whether or
\* not SciterDeleteElement succeeded, and its drop passes the null handle,
\* not the handle of the destroyed element, to Sciter_UnuseElement.
C35_DestroyClearsHandle ==
  /\ \A i \in 1..Len(elems) :
       elems[i].destroyed
       => /\ elems[i].he = NULL
          /\ elems[i].unused \in {"-", NULL}
  /\ \A h \in ElemHandles \cup {NULL} :
       engine[h]["unuse"] =
         Cardinality({i \in 1..Len(elems) : elems[i].unused = h})

C35_Witness ==
  \E i \in 1..Len(elems) :
    /\ elems[i].destroyed /\ elems[i].he0 = DocHandle
    /\ elems[i].unused = NULL
    /\ engine[DocHandle]["delete"] = 1
    /\ engine[DocHandle]["unuse"] = 0 /\ engine[NULL]["unuse"] = 1

-----------------------------------------------------------------------------
(* Properties of Image::paint *)

\* C33: Image::paint returns the engine's failure code when imagePaint
\* fails; when imagePaint succeeds it returns exactly what the painter
\* returned, an error of the painter included, and Ok(()) for a painter
\* that succeeded (or was not run).
C33_PaintResult ==
  (painted.out.result # <<"-">> /\ ~painted.out.panic)
  => /\ painted.code # GRAPHIN_OK
          => painted.out.result = <<"Err", painted.code>>
     /\ (painted.code = GRAPHIN_OK /\ painted.called)
          => painted.out.result = painted.painter
     /\ (painted.code = GRAPHIN_OK /\ ~painted.called)
          => painted.out.result = <<"Ok">>
     /\ painted.out.gAddRef = painted.out.gRelease

C33_Witness ==
  /\ painted.code = GRAPHIN_OK /\ painted.called
  /\ painted.painter = <<"Err", GRAPHIN_BAD_PARAM>>
  /\ painted.out.result = <<"Err", GRAPHIN_BAD_PARAM>>
  /\ painted.seen = <<<<100, 100>>>>

-----------------------------------------------------------------------------
(* Properties of the window builder *)

\* C34: a window built with with_pos((x, y)) and with_size((w, h)), in
\* either order and with no with_rect, is created by Window::create with
\* the rectangle (x, y, w, h).
C34_BuilderRect ==
  (/\ builder.created # <<>>
   /\ builder.pos # <<>> /\ builder.size # <<>> /\ builder.whole = <<>>)
  => builder.created[1] =
       <<builder.pos[1][1], builder.pos[1][2],
         builder.size[1][1], builder.size[1][2]>>

-----------------------------------------------------------------------------
(* Properties of the video example *)

Finished == {t \in Threads : tpc[t] = "done"}

\* C8: once the is_alive poll reports false the worker thread renders no
\* further frame, leaves its loop, releases its asset reference exactly once
\* and terminates, and a detached hook joining that thread returns.
C8_WorkerShutdown ==
  /\ [][\A t \in Threads :
          /\ (tpc[t] = "poll" /\ ~alive) => tpc'[t] \in {"poll", "exit"}
          /\ tpc[t] \in {"exit", "done"}
               => /\ frames'[t] = frames[t]
                  /\ tpc'[t] \in {"exit", "done"}]_vars
  /\ [](releases["frag"] = Cardinality(Finished))
  /\ \A t \in 1..MaxBinds :
       (t \in Threads /\ ~alive) ~> (t \in Threads /\ tpc[t] = "done")
  /\ (detachPc = "joining" /\ ~alive) ~> (detachPc = "returned")

C8_Witness ==
  /\ detachPc = "returned"
  /\ joinTid \in Threads
  /\ tpc[joinTid] = "done"
  /\ frames[joinTid] >= 1
  /\ releases["frag"] = 1
  /\ ~alive

\* C9: after the detached hook has returned, no worker thread spawned by
\* the handler is still running, so none calls through its asset handle.
C9_AllWorkersJoined ==
  detachPc = "returned" => \A t \in Threads : tpc[t] = "done"

\* C12: over the handling of a video-bind notification the handler issues
\* no more release calls on the notification's pointer than add_ref calls.
C12_NoUnownedRelease == releases["site"] <= addRefs["site"]

-----------------------------------------------------------------------------
(* Specifications *)

Init ==
  TInit /\ DInit /\ HInit /\ AInit /\ VInit /\ SInit /\ BInit /\ PInit /\ EInit

Next == TNext

Spec == Init /\ [][Next]_vars

\* Notifications of every group, delivered one at a time.
SpecDispatch == Init /\ [][DispatchNext]_vars

\* Two handlers attached at the same time.
SpecPair == Init /\ [][PairNext]_vars

SpecDecode == Init /\ [][DNext]_vars

SpecHost == Init /\ [][HNext]_vars

SpecHosts == Init /\ [][HostsNext]_vars

SpecCallback == Init /\ [][CallbackNext]_vars

SpecBehavior == Init /\ [][BehaviorNext]_vars

SpecHandles == Init /\ [][ANext]_vars

SpecSelect == Init /\ [][SNext]_vars

SpecBuilder == Init /\ [][BNext]_vars

SpecElement == Init /\ [][ENext]_vars

SpecPaint == Init /\ [][PNext]_vars

SpecVideo == Init /\ [][VNext]_vars

\* The operating system schedules every worker thread and the thread that
\* waits in join.
SpecVideoFair ==
  /\ Init
  /\ [][VNext]_vars
  /\ \A t \in 1..MaxBinds : WF_vars(t \in Threads /\ WorkerStep(t))
  /\ WF_vars(JoinReturn)

=============================================================================
